---- MODULE Spec2Model ----
(***************************************************************************)
(* Verification model of the AURA repair validation engine                 *)
(* (backend/app): the manifest policy guard and the build-file blocklist   *)
(* of agents/tools.py, the LangGraph repair workflow of agents/workflow.py *)
(* as it is run by agents/service.py, and the change-status bookkeeping of *)
(* services/webhook_service.py.                                            *)
(*                                                                         *)
(* Text is modelled as sequences of tokens: a line is a sequence of tokens *)
(* and a diff is a sequence of lines.  Python's substring test  x in s     *)
(* becomes a contiguous-subsequence test, str.lower() maps each token to   *)
(* its lower-case form, and a regular expression  <t>([^<]+)</t>  becomes  *)
(* a search for the three tokens  <t>, value, </t>.                        *)
(***************************************************************************)
EXTENDS Integers, Sequences, FiniteSets, TLC

VARIABLES
    gDiff,          \* guard harness: the diff under test, [hdr, blocks]
    gPom,           \* guard harness: the manifest on disk
    gOut,           \* guard harness: what the guard and _compile_maven returned
    wpc,            \* position of _run_agent_background
    status,         \* the change record's status in the database
    calls,          \* what the run has asked the change record to persist
    node,           \* the workflow node that runs next
    steps,          \* workflow nodes run so far in this invocation
    messages,       \* state["messages"]
    proposed_diff,  \* state["proposed_diff"]
    builds,         \* sandbox builds started in this session
    tree,           \* the working tree: "clean" or the diff applied to it
    passed,         \* diff texts whose sandbox build passed compilation and tests
    result,         \* what process_repository returned
    ran,            \* the workflow node that ran last
    outcome,        \* what happened in the node that ran last
    live,           \* sandbox containers that are started and not yet torn down
    sessions,       \* concurrency harness: the repair sessions of one server
    fnIn,           \* function harness: the input of the function under test
    fnOut           \* function harness: what the function returned

guardVars == <<gDiff, gPom, gOut>>
hookVars == <<wpc, status, calls>>
flowVars == <<node, steps, messages, proposed_diff, builds, tree, passed, result,
              ran, outcome>>
boxVars == <<live>>

\* no call of callback.save_result or callback.save_error yet, no diff stored,
\* and neither the recipe run nor the agent run has succeeded
NoCalls ==
    [save_result |-> 0, save_error |-> 0, diff_saved |-> FALSE, succeeded |-> FALSE]
auxVars == <<sessions, fnIn, fnOut>>
vars == <<gDiff, gPom, gOut, wpc, status, calls, node, steps, messages, proposed_diff,
          builds, tree, passed, result, ran, outcome, live, sessions, fnIn, fnOut>>

(***************************************************************************)
(* Bounds of the model.                                                    *)
(***************************************************************************)
MaxBlocks == 1

(***************************************************************************)
(* Text helpers.                                                           *)
(***************************************************************************)
Max(a, b) == IF a >= b THEN a ELSE b

Contains(s, pat) ==
    \E i \in 1..(Len(s) - Len(pat) + 1) : SubSeq(s, i, i + Len(pat) - 1) = pat

HasTok(s, t) == \E i \in 1..Len(s) : s[i] = t

StartsWith(s, t) == Len(s) >= 1 /\ s[1] = t

LowerTok(t) ==
    CASE t = "POM.XML" -> "pom.xml"
      [] t = "Build.Gradle" -> "build.gradle"
      [] OTHER -> t

Lower(s) == [i \in 1..Len(s) |-> LowerTok(s[i])]

Tags == {"<dependency>", "</dependency>", "<groupId>", "</groupId>",
         "<artifactId>", "</artifactId>", "<version>", "</version>"}

None == "None"

\* an absent text, a working tree without changes, and no returned result
NoContent == <<>>
CleanTree == <<>>

NoResult ==
    [kind |-> "none", diff |-> NoContent, error |-> "none", via_except |-> FALSE,
     diagnostics |-> NoContent]

\* re.compile(r'<t>([^<]+)</t>').search(line): the captured group, or None
RegexGroup(line, open, close) ==
    LET hits == {i \in 1..(Len(line) - 2) :
                    /\ line[i] = open
                    /\ line[i + 1] \notin Tags
                    /\ line[i + 2] = close}
    IN IF hits = {} THEN None
       ELSE line[(CHOOSE i \in hits : \A j \in hits : i <= j) + 1]

(***************************************************************************)
(* Manifest Policy Guard: validate_pom_xml_changes (agents/tools.py).      *)
(***************************************************************************)
LookBackWindow == 5

\* tools.py 115-132: the removed and the added lines of the pom.xml section,
\* each without its leading sign
RECURSIVE ScanPomSection(_, _, _, _)
ScanPomSection(lines, in_pom_section, removed_lines, added_lines) ==
    IF lines = <<>>
    THEN [removed_lines |-> removed_lines, added_lines |-> added_lines]
    ELSE LET line == Head(lines)
             rest == Tail(lines)
         IN IF /\ HasTok(Lower(line), "pom.xml")
               /\ (HasTok(line, "---") \/ HasTok(line, "+++"))
            THEN ScanPomSection(rest, TRUE, removed_lines, added_lines)
            ELSE IF ~in_pom_section
            THEN ScanPomSection(rest, FALSE, removed_lines, added_lines)
            ELSE IF StartsWith(line, "---") \/ StartsWith(line, "+++")
            THEN ScanPomSection(rest, FALSE, removed_lines, added_lines)
            ELSE IF StartsWith(line, "-")
            THEN ScanPomSection(rest, TRUE, Append(removed_lines, Tail(line)),
                                added_lines)
            ELSE IF StartsWith(line, "+")
            THEN ScanPomSection(rest, TRUE, removed_lines,
                                Append(added_lines, Tail(line)))
            ELSE ScanPomSection(rest, TRUE, removed_lines, added_lines)

\* tools.py 150-160: the last groupId (artifactId) among the up to five lines
\* of the same side that precede line i
LookBack(side, i, open, close) ==
    LET js == {j \in Max(1, i - LookBackWindow)..(i - 1) :
                  /\ HasTok(side[j], open)
                  /\ RegexGroup(side[j], open, close) # None}
    IN IF js = {} THEN None
       ELSE RegexGroup(side[CHOOSE j \in js : \A k \in js : k <= j], open, close)

\* dict[key] = value on an insertion-ordered dict kept as a sequence of pairs
DictSet(d, key, value) ==
    IF \E k \in 1..Len(d) : d[k].key = key
    THEN [k \in 1..Len(d) |->
             IF d[k].key = key THEN [key |-> key, value |-> value] ELSE d[k]]
    ELSE Append(d, [key |-> key, value |-> value])

DictHas(d, key) == \E k \in 1..Len(d) : d[k].key = key

DictGet(d, key) == d[CHOOSE k \in 1..Len(d) : d[k].key = key].value

\* tools.py 143-164 (and 167-188 for the added side): "groupId:artifactId"
\* -> version, for every <version> line of the side with both ids in its window
RECURSIVE ExtractDependencies(_, _, _)
ExtractDependencies(side, i, deps) ==
    IF i > Len(side) THEN deps
    ELSE LET version  == RegexGroup(side[i], "<version>", "</version>")
             group_id == LookBack(side, i, "<groupId>", "</groupId>")
             artifact_id == LookBack(side, i, "<artifactId>", "</artifactId>")
         IN IF /\ HasTok(side[i], "<version>")
               /\ version # None
               /\ group_id # None
               /\ artifact_id # None
            THEN ExtractDependencies(side, i + 1,
                     DictSet(deps, <<group_id, artifact_id>>, version))
            ELSE ExtractDependencies(side, i + 1, deps)

Allowed == [allowed |-> TRUE, message |-> <<>>]

Blocked(dep_key, old_version, new_version) ==
    [allowed |-> FALSE,
     message |-> <<"BLOCKED: Attempt to change dependency", dep_key[1], ":",
                   dep_key[2], "version from", old_version, "to", new_version>>]

\* a guard that takes every added coordinate found in the original manifest for
\* a version change, whether or not the diff removes its old version
CheckAddedOnly(removed_dependencies, added_dependencies, original_content, k) ==
    LET hits == {n \in 1..Len(added_dependencies) :
                    /\ HasTok(original_content, added_dependencies[n].key[1])
                    /\ HasTok(original_content, added_dependencies[n].key[2])}
    IN IF hits = {} THEN Allowed
       ELSE LET n == CHOOSE m \in hits : TRUE
            IN Blocked(added_dependencies[n].key, None, added_dependencies[n].value)

\* tools.py 191-201: the first removed coordinate that exists in the original
\* manifest and is re-added with another version blocks the diff
RECURSIVE CheckExisting(_, _, _, _)
CheckExisting(removed_dependencies, added_dependencies, original_content, k) ==
    IF k > Len(removed_dependencies) THEN Allowed
    ELSE LET dep_key     == removed_dependencies[k].key
             old_version == removed_dependencies[k].value
         IN IF /\ HasTok(original_content, dep_key[1])
               /\ HasTok(original_content, dep_key[2])
               /\ DictHas(added_dependencies, dep_key)
               /\ DictGet(added_dependencies, dep_key) # old_version
            THEN Blocked(dep_key, old_version,
                         DictGet(added_dependencies, dep_key))
            ELSE CheckExisting(removed_dependencies, added_dependencies,
                               original_content, k + 1)

\* a <dependency> or </dependency> line is removed and not added again
RemovedWithoutReplacement(removed_lines, added_lines) ==
    \E n \in 1..Len(removed_lines) :
        /\ removed_lines[n] # <<>>
        /\ ~StartsWith(removed_lines[n], "<!--")
        /\ HasTok(removed_lines[n], "<dependency>")
              \/ HasTok(removed_lines[n], "</dependency>")
        /\ \A a \in 1..Len(added_lines) : added_lines[a] # removed_lines[n]

BlockedRemoval ==
    [allowed |-> FALSE,
     message |-> <<"BLOCKED: Attempt to remove dependency">>]

\* a guard that rejects a dependency block removed without replacement
RejectRemoval(removed_lines, added_lines, verdict) ==
    IF ~verdict.allowed THEN verdict
    ELSE IF RemovedWithoutReplacement(removed_lines, added_lines)
    THEN BlockedRemoval
    ELSE Allowed

\* tools.py 203-218: a dependency block removed without replacement is passed
\* over, and the guard returns True with an empty message
CheckRemoval(removed_lines, added_lines, verdict) ==
    IF ~verdict.allowed THEN verdict
    ELSE IF RemovedWithoutReplacement(removed_lines, added_lines)
    THEN Allowed
    ELSE Allowed

\* tools.py 92-220.  diff_content is a sequence of lines; pom is the on-disk
\* manifest, [exists, content]
validate_pom_xml_changes(diff_content, pom) ==
    IF ~\E n \in 1..Len(diff_content) : HasTok(Lower(diff_content[n]), "pom.xml")
    THEN Allowed
    ELSE IF ~pom.exists THEN Allowed
    ELSE LET scan == ScanPomSection(diff_content, FALSE, <<>>, <<>>)
             removed_dependencies ==
                 ExtractDependencies(scan.removed_lines, 1, <<>>)
             added_dependencies ==
                 ExtractDependencies(scan.added_lines, 1, <<>>)
         IN CheckRemoval(scan.removed_lines, scan.added_lines,
                         CheckExisting(removed_dependencies, added_dependencies,
                                       pom.content, 1))

(***************************************************************************)
(* Build-file checks at the head of _compile_maven (agents/tools.py).      *)
(***************************************************************************)
\* tools.py 345
forbidden_files_strict ==
    << <<"build.gradle">>, <<"build.gradle", ".kts">>, <<"settings.gradle">> >>

InText(lines, pat) == \E n \in 1..Len(lines) : Contains(lines[n], pat)

LowerLines(lines) == [n \in 1..Len(lines) |-> Lower(lines[n])]

\* tools.py 352: "--- a/<file>" or "+++ b/<file>" occurs in the lower-cased diff
ForbiddenHit(diff_lower, forbidden_file) ==
    \/ InText(diff_lower, <<"---", " ", "a/">> \o forbidden_file)
    \/ InText(diff_lower, <<"+++", " ", "b/">> \o forbidden_file)

BlockedReturn(error_msg) ==
    [kind |-> "blocked",
     compilation_has_succeeded |-> FALSE,
     test_has_succeeded |-> FALSE,
     error_text |-> error_msg]

Proceed == [kind |-> "proceed",
            compilation_has_succeeded |-> FALSE,
            test_has_succeeded |-> FALSE,
            error_text |-> <<>>]

\* tools.py 348-372: the early returns of _compile_maven(diff); "proceed" means
\* that control reaches the sandbox build of line 396
CompilePrecheck(diff, pom) ==
    IF diff = <<>> THEN Proceed
    ELSE LET diff_lower == LowerLines(diff)
             hits == {k \in 1..Len(forbidden_files_strict) :
                         ForbiddenHit(diff_lower, forbidden_files_strict[k])}
         IN IF hits # {}
            THEN BlockedReturn(
                   <<"BLOCKED: Attempt to modify">> \o
                   forbidden_files_strict[CHOOSE k \in hits : \A j \in hits : k <= j])
            ELSE IF InText(diff_lower, <<"pom.xml">>)
                    /\ ~validate_pom_xml_changes(diff, pom).allowed
            THEN BlockedReturn(validate_pom_xml_changes(diff, pom).message)
            ELSE Proceed

(***************************************************************************)
(* Diffs.  A diff is described by the header of the file it touches and by *)
(* the dependency blocks of its hunk; Render gives its text.  In a block   *)
(* each of the groupId, artifactId and version lines is carried as context *)
(* ("ctx"), removed ("del"), added ("add") or rewritten ("chg": removed    *)
(* and added again).                                                       *)
(***************************************************************************)
Modes == {"ctx", "del", "add", "chg"}

Coords == { <<"commons-io", "commons-io">>, <<"com.google.guava", "guava">> }

VersionPairs == { <<"2.6", "2.15.1">>, <<"2.6", "2.6">> }

Blocks ==
    [coord : Coords, versions : VersionPairs, mg : Modes, ma : Modes, mv : Modes]

PomFile == <<"pom.xml">>

FileNames == {PomFile, <<"POM.XML">>, <<"Foo.java">>, <<"build.gradle">>,
              <<"Build.Gradle">>, <<"build.gradle", ".kts">>,
              <<"settings.gradle">>}

\* prefixed: "--- a/<path>" and "+++ b/<path>"; otherwise "--- <path>"
Headers == [prefixed : BOOLEAN, dir : {<<>>, <<"app/">>}, file : FileNames]

PomHeader == [prefixed |-> TRUE, dir |-> <<>>, file |-> PomFile]

HeaderLines(h) ==
    << <<"---", " ">> \o (IF h.prefixed THEN <<"a/">> ELSE <<>>) \o h.dir \o h.file,
       <<"+++", " ">> \o (IF h.prefixed THEN <<"b/">> ELSE <<>>) \o h.dir \o h.file,
       <<"@@">> >>

XmlLine(tag, value) ==
    CASE tag = "groupId" -> <<"<groupId>", value, "</groupId>">>
      [] tag = "artifactId" -> <<"<artifactId>", value, "</artifactId>">>
      [] tag = "version" -> <<"<version>", value, "</version>">>

BlockWhole(b, m) == b.mg = m /\ b.ma = m /\ b.mv = m

\* the lines of a block with their modes, in file order
Slots(b) ==
    LET edge == IF BlockWhole(b, "del") THEN "del"
                ELSE IF BlockWhole(b, "add") THEN "add" ELSE "ctx"
    IN << [mode |-> edge, old |-> <<"<dependency>">>, new |-> <<"<dependency>">>],
          [mode |-> b.mg, old |-> XmlLine("groupId", b.coord[1]),
                          new |-> XmlLine("groupId", b.coord[1])],
          [mode |-> b.ma, old |-> XmlLine("artifactId", b.coord[2]),
                          new |-> XmlLine("artifactId", b.coord[2])],
          [mode |-> b.mv, old |-> XmlLine("version", b.versions[1]),
                          new |-> XmlLine("version", b.versions[2])],
          [mode |-> edge, old |-> <<"</dependency>">>, new |-> <<"</dependency>">>] >>

\* unified-diff order: in a run of changed lines the removed lines come first
RECURSIVE RenderSlots(_, _, _)
RenderSlots(slots, dels, adds) ==
    IF slots = <<>> THEN dels \o adds
    ELSE LET s == Head(slots)
         IN CASE s.mode = "ctx" ->
                   dels \o adds \o << <<" ">> \o s.old >> \o
                   RenderSlots(Tail(slots), <<>>, <<>>)
              [] s.mode = "del" ->
                   RenderSlots(Tail(slots), Append(dels, <<"-">> \o s.old), adds)
              [] s.mode = "add" ->
                   RenderSlots(Tail(slots), dels, Append(adds, <<"+">> \o s.new))
              [] s.mode = "chg" ->
                   RenderSlots(Tail(slots), Append(dels, <<"-">> \o s.old),
                               Append(adds, <<"+">> \o s.new))

RECURSIVE RenderBlocks(_)
RenderBlocks(blocks) ==
    IF blocks = <<>> THEN <<>>
    ELSE RenderSlots(Slots(Head(blocks)), <<>>, <<>>) \o RenderBlocks(Tail(blocks))

Render(d) == HeaderLines(d.hdr) \o RenderBlocks(d.blocks)

\* the manifest on disk: it declares commons-io:commons-io 2.6 and no guava
PomOnDisk ==
    [exists |-> TRUE,
     content |-> <<"<dependency>", "<groupId>", "commons-io", "</groupId>",
                   "<artifactId>", "commons-io", "</artifactId>",
                   "<version>", "2.6", "</version>", "</dependency>">>]

NoPom == [exists |-> FALSE, content |-> <<>>]

(***************************************************************************)
(* Harness for the guard and the build-file checks: a diff is assembled    *)
(* block by block and then handed to validate_pom_xml_changes and to       *)
(* _compile_maven.                                                         *)
(***************************************************************************)
\* bodies tried under headers other than "--- a/pom.xml"
SampleBlocks ==
    {b \in Blocks : /\ b.coord = <<"commons-io", "commons-io">>
                    /\ b.versions = <<"2.6", "2.15.1">>
                    /\ b.mg = b.ma
                    /\ b.mg \in {"ctx", "chg"}
                    /\ b.mv \in {"chg", "add"}}

NotChecked == [done |-> FALSE, guard |-> Allowed, compile |-> Proceed]

FlowIdle ==
    /\ node = "idle" /\ steps = 0 /\ messages = <<>> /\ proposed_diff = NoContent
    /\ builds = 0 /\ tree = CleanTree /\ passed = {} /\ result = NoResult
    /\ ran = "none" /\ outcome = "none"
    /\ live = 0

\* the harnesses that a specification does not use stay as they are
AuxIdle ==
    /\ sessions = <<>>
    /\ fnIn = <<>>
    /\ fnOut = <<>>

GuardInit ==
    /\ gDiff \in [hdr : Headers, blocks : {<<>>}]
    /\ gPom \in {PomOnDisk, NoPom}
    /\ gOut = NotChecked
    /\ wpc = "idle" /\ status = "pending" /\ calls = NoCalls
    /\ FlowIdle
    /\ AuxIdle

ProposeBlock ==
    /\ ~gOut.done
    /\ Len(gDiff.blocks) < MaxBlocks
    /\ \E b \in (IF gDiff.hdr = PomHeader THEN Blocks ELSE SampleBlocks) :
          gDiff' = [gDiff EXCEPT !.blocks = Append(@, b)]
    /\ UNCHANGED <<gPom, gOut, hookVars, flowVars, boxVars, auxVars>>

CheckDiff ==
    /\ ~gOut.done
    /\ gOut' = [done |-> TRUE,
                guard |-> validate_pom_xml_changes(Render(gDiff), gPom),
                compile |-> CompilePrecheck(Render(gDiff), gPom)]
    /\ UNCHANGED <<gDiff, gPom, hookVars, flowVars, boxVars, auxVars>>

GuardNext == ProposeBlock \/ CheckDiff

GuardSpec == GuardInit /\ [][GuardNext]_vars

(***************************************************************************)
(* Message texts of the repair workflow (agents/workflow.py).              *)
(***************************************************************************)
SuccessPhrase == "Compilation and Testing successful:"

\* the opening line of a fenced diff block (three backquotes and the word
\* diff) and its closing line
DiffFence == "[fence]diff"
FenceEnd == "[fence]"

JavaHeader == [prefixed |-> TRUE, dir |-> <<>>, file |-> <<"Foo.java">>]

\* the diffs the Proposer chooses from in a session
SessionDiffNames == {"DJava", "DPomAdd", "DPomBump", "DGradle"}

DiffOf(name) ==
    CASE name = "DJava" -> [hdr |-> JavaHeader, blocks |-> <<>>]
      [] name = "DPomAdd" ->
            [hdr |-> PomHeader,
             blocks |-> << [coord |-> <<"com.google.guava", "guava">>,
                            versions |-> <<"2.6", "2.6">>,
                            mg |-> "add", ma |-> "add", mv |-> "add"] >>]
      [] name = "DPomBump" ->
            [hdr |-> PomHeader,
             blocks |-> << [coord |-> <<"commons-io", "commons-io">>,
                            versions |-> <<"2.6", "2.15.1">>,
                            mg |-> "ctx", ma |-> "ctx", mv |-> "chg"] >>]
      [] name = "DGradle" ->
            [hdr |-> [prefixed |-> TRUE, dir |-> <<>>, file |-> <<"build.gradle">>],
             blocks |-> <<>>]

\* a text as lines: a diff named in it stands for the lines of that diff
RECURSIVE TextLines(_)
TextLines(content) ==
    IF content = <<>> THEN <<>>
    ELSE IF Head(content) \in SessionDiffNames
         THEN Render(DiffOf(Head(content))) \o TextLines(Tail(content))
         ELSE << <<Head(content)>> >> \o TextLines(Tail(content))

\* the Proposer's inline tool request {"tool": name, "args": ...}
ToolJson(name, args) == <<"{", "tool", name>> \o args \o <<"}">>

NoArgs == <<>>
StringArgs(v) == <<"args", v>>
ObjectArgs(v) == <<"args", "{", "param", v, "}">>

\* json.dumps of a MavenReturn, and any other JSON object with these two keys
MavenJson(compiled, tested, error_text) ==
    <<"{", "compilation_has_succeeded", IF compiled THEN "true" ELSE "false",
      "test_has_succeeded", IF tested THEN "true" ELSE "false",
      "error_text">> \o error_text \o <<"}">>

Count(s, t) == Cardinality({i \in 1..Len(s) : s[i] = t})

\* json.loads(text) succeeds on an object: the braces nest and close at the end
JsonLoads(text) ==
    /\ Len(text) >= 2
    /\ text[1] = "{"
    /\ text[Len(text)] = "}"
    /\ Count(text, "{") = Count(text, "}")
    /\ \A i \in 1..(Len(text) - 1) :
          Count(SubSeq(text, 1, i), "{") > Count(SubSeq(text, 1, i), "}")

JsonGet(text, key, default) ==
    IF \E i \in 1..(Len(text) - 1) : text[i] = key
    THEN text[(CHOOSE i \in 1..(Len(text) - 1) : text[i] = key) + 1]
    ELSE default

\* str.find: the first index of the token, 0 when it does not occur
Find(s, t) ==
    IF HasTok(s, t) THEN CHOOSE i \in 1..Len(s) : s[i] = t /\ \A j \in 1..(i - 1) : s[j] # t
    ELSE 0

EmptyArgs == "{}"

\* workflow.py 121-146: the tool_calls call_model attaches to the response
ParsedToolCalls(content) ==
    IF StartsWith(content, "{") /\ HasTok(content, "tool")
    THEN LET json_end == Find(content, "}")
             json_str == SubSeq(content, 1, json_end)
         IN IF json_end # 0 /\ JsonLoads(json_str) /\ HasTok(json_str, "tool")
            THEN << [name |-> JsonGet(json_str, "tool", None),
                     args |-> JsonGet(json_str, "args", EmptyArgs)] >>
            ELSE <<>>
    ELSE <<>>

AIMessage(content) ==
    [role |-> "ai", content |-> content, tool_calls |-> ParsedToolCalls(content)]

ToolMessage(content) == [role |-> "tool", content |-> content, tool_calls |-> <<>>]

\* service.py 126-129
initial_messages ==
    << [role |-> "system", content |-> <<"SYSTEM_PROMPT">>, tool_calls |-> <<>>],
       [role |-> "human", content |-> <<"prompt">>, tool_calls |-> <<>>] >>

Last(s) == s[Len(s)]

\* what the Proposer may answer
Replies ==
    { <<"text">>, <<"text", SuccessPhrase>>, MavenJson(TRUE, TRUE, <<>>) }
    \cup { <<"text", DiffFence, d, FenceEnd>> : d \in SessionDiffNames }
    \cup { ToolJson("reset_repo", NoArgs), ToolJson("reset_repo", ObjectArgs("x")),
           ToolJson("read_file", StringArgs("Foo.java")),
           ToolJson("validate_diffs", StringArgs("DJava")),
           ToolJson("compile_maven_stateful", NoArgs),
           ToolJson("compile_maven_stateful", ObjectArgs("DJava")) }
    \cup { ToolJson("compile_maven_stateful", StringArgs(d)) : d \in SessionDiffNames }

\* workflow.py 298-321
should_continue(last_message) ==
    IF last_message.tool_calls # <<>> THEN "tools" ELSE "compile_agent"

\* json.loads(content) gives an object whose two flags are true
JsonSuccess(content) ==
    /\ JsonLoads(content)
    /\ JsonGet(content, "compilation_has_succeeded", "false") = "true"
    /\ JsonGet(content, "test_has_succeeded", "false") = "true"

\* workflow.py 323-342
should_improve_non_test_diff(last_message) ==
    IF HasTok(last_message.content, SuccessPhrase) THEN "END"
    ELSE IF JsonSuccess(last_message.content) THEN "END"
    ELSE "agent"

(***************************************************************************)
(* The sandbox build of _compile_maven (agents/tools.py 396-501).  The     *)
(* build itself (MavenReproducerAgent) is the environment: it fails to     *)
(* start its container, fails with an I/O error while it runs, or returns  *)
(* its two flags and its output.                                           *)
(***************************************************************************)
BuildOutcomes ==
    {"start_failed", "io_error", "pass", "test_fail", "compile_fail",
     "compile_fail_echo"}

EnvironmentFailures == {"start_failed", "io_error"}

\* the processed output of a build; a failing build's output may carry any
\* text of the project, the text of SuccessPhrase included
ErrorText(o) ==
    CASE o = "pass" -> <<>>
      [] o = "test_fail" -> <<"Tests run: 1, Failures: 1">>
      [] o = "compile_fail" -> <<"COMPILATION ERROR">>
      [] o = "compile_fail_echo" -> <<"COMPILATION ERROR", SuccessPhrase>>
      [] OTHER -> <<>>

\* the texts that reach _compile_maven in a session: a reply that carries a
\* fenced diff (workflow.py 220-230) and the argument of a tool request
BuildInputs ==
    { <<"text", DiffFence, d, FenceEnd>> : d \in SessionDiffNames }
    \cup { <<d>> : d \in SessionDiffNames }

\* tools.py 344-395 on each of these texts, with the session's manifest on disk
Precheck == [c \in BuildInputs |-> CompilePrecheck(TextLines(c), PomOnDisk)]

\* a context manager whose exit leaves the container running
NoCleanUp(n) == n

\* recipe_executor.py 46-50: the finally clause of start_container tears the
\* container down
clean_up(n) == n - 1

ExitWith(n) == clean_up(n)

\* tools.py 398-415, webhook_service.py 160-165: the body of a with statement
\* over start_container; the container lives from the entry of the block to
\* its exit, whether the block ends or raises
WithContainer(n, acquired) == IF acquired THEN ExitWith(n + 1) ELSE n

\* tools.py 339-501: _compile_maven(diff) when the build ends as o.  raised:
\* an exception leaves the function; started: the sandbox build was started;
\* acquired: start_container gave a container
\* a check that runs after discard() and inside the container
RejectInsideContainer(pre) ==
    [raised |-> FALSE, started |-> TRUE, acquired |-> TRUE,
     ret |-> pre, tree |-> CleanTree]

\* tools.py 349-374: the early returns of the policy checks, before
\* MavenReproducerAgent, discard() and start_container of lines 396-398
RejectBeforeContainer(pre) ==
    [raised |-> FALSE, started |-> FALSE, acquired |-> FALSE,
     ret |-> pre, tree |-> tree]

CompileMaven(diff_text, o) ==
    LET pre == Precheck[diff_text]
    IN IF pre.kind = "blocked"
       THEN RejectBeforeContainer(pre)
       ELSE IF o = "start_failed"
       THEN [raised |-> TRUE, started |-> TRUE, acquired |-> FALSE,
             ret |-> pre, tree |-> CleanTree]
       ELSE IF o = "io_error"
       THEN [raised |-> TRUE, started |-> TRUE, acquired |-> TRUE,
             ret |-> pre, tree |-> diff_text]
       ELSE [raised |-> FALSE, started |-> TRUE, acquired |-> TRUE,
             ret |-> [kind |-> "built",
                      compilation_has_succeeded |-> o \in {"pass", "test_fail"},
                      test_has_succeeded |-> o = "pass",
                      error_text |-> ErrorText(o)],
             tree |-> CleanTree]

BuildPassed(run) ==
    /\ ~run.raised
    /\ run.started
    /\ run.ret.compilation_has_succeeded
    /\ run.ret.test_has_succeeded

\* what a node records about the build it ran
BuildOutcome(run, o) ==
    IF run.ret.kind = "blocked" THEN "blocked" ELSE o

(***************************************************************************)
(* The nodes of the workflow (agents/workflow.py) under the engine that    *)
(* app.invoke runs with recursion_limit 5 (agents/service.py 136-143): a   *)
(* node runs while fewer than recursion_limit nodes have run; when the     *)
(* limit is reached before END the engine raises GraphRecursionError.      *)
(***************************************************************************)
recursion_limit == 5

Running == node \in {"agent", "tools", "compile_agent"}

\* an engine that runs nodes without a step limit
StepAlways == TRUE

StepAllowed == steps < recursion_limit

Strip(line) ==
    IF \E i \in 1..Len(line) : line[i] # " "
    THEN SubSeq(line, CHOOSE i \in 1..Len(line) :
                          line[i] # " " /\ \A j \in 1..(i - 1) : line[j] = " ",
                Len(line))
    ELSE <<>>

\* workflow.py 200-206: the workflow's own test for a version change (a line
\* that starts with "-" makes the test  "-" in content  of line 202 true)
CompileAgentRejects(lines) ==
    /\ InText(LowerLines(lines), <<"pom.xml">>)
    /\ InText(lines, <<"<version>">>)
    /\ \E n \in 1..Len(lines) :
          /\ (StartsWith(Strip(lines[n]), "-") \/ StartsWith(Strip(lines[n]), "---"))
          /\ HasTok(lines[n], "<version>")

\* the fenced replies that this test rejects
PolicyRejected == {c \in BuildInputs : CompileAgentRejects(TextLines(c))}

\* workflow.py 208-214
VersionChangeError ==
    AIMessage(<<"ERROR: You attempted to CHANGE an existing dependency version in pom.xml.">>)

\* workflow.py 248-271: the text of compile_agent's result message
ResultContent(ret) ==
    IF ret.compilation_has_succeeded /\ ret.test_has_succeeded
    THEN <<SuccessPhrase, "The diff was applied successfully and all tests passed.">>
    ELSE <<"Compilation", IF ret.compilation_has_succeeded THEN "succeeded" ELSE "FAILED",
           "Tests", IF ret.test_has_succeeded THEN "succeeded" ELSE "FAILED">>
         \o (IF ret.error_text # <<>>
             THEN <<"Maven Error Output:">> \o ret.error_text
             ELSE <<"No error output captured from Maven">>)

\* service.py 136-143: app.invoke starts the graph at its entry point; the
\* tools of line 95 were built on a discarded (clean) tree
Invoke ==
    /\ wpc = "agent"
    /\ node = "idle"
    /\ node' = "agent"
    /\ messages' = initial_messages
    /\ proposed_diff' = NoContent
    /\ steps' = 0
    /\ tree' = CleanTree
    /\ UNCHANGED <<builds, passed, result, ran, outcome, guardVars, hookVars,
                   boxVars, auxVars>>

\* workflow.py 118-148: the responses call_model returns
Responses == {AIMessage(content) : content \in Replies}

\* workflow.py 99-148 and the edge of line 350
call_model ==
    /\ node = "agent"
    /\ StepAllowed
    /\ steps' = steps + 1
    /\ ran' = "agent"
    /\ \/ \E response \in Responses :
             /\ messages' = Append(messages, response)
             /\ node' = should_continue(response)
             /\ outcome' = "reply"
       \/ /\ messages' = messages
          /\ node' = "raised"
          /\ outcome' = "llm_error"
    /\ UNCHANGED <<proposed_diff, builds, tree, passed, result, guardVars,
                   hookVars, boxVars, auxVars>>

FileTexts == { <<"class Foo {}">>, <<"class Foo {}", SuccessPhrase>>,
               MavenJson(TRUE, TRUE, <<>>) }

ToolError == <<"Error executing tool:">>

\* workflow.py 150-182 with the tools of tools.py 255-325, 570-612, and the edge
\* of line 352
call_tools ==
    /\ node = "tools"
    /\ StepAllowed
    /\ steps' = steps + 1
    /\ ran' = "tools"
    /\ LET tool_call == Last(messages).tool_calls[1]
           Finish(content, o) ==
               /\ messages' = Append(messages, ToolMessage(content))
               /\ node' = should_improve_non_test_diff(ToolMessage(content))
               /\ outcome' = o
       IN CASE tool_call.name = "reset_repo" ->
                 /\ Finish(<<"Successful reset of repository">>, "tool_ok")
                 /\ tree' = CleanTree
                 /\ UNCHANGED <<builds, passed, live>>
            [] tool_call.name = "read_file" ->
                 /\ \E text \in FileTexts \cup {<<"Error:">>} : Finish(text, "tool_ok")
                 /\ UNCHANGED <<builds, passed, tree, live>>
            [] tool_call.name = "validate_diffs" ->
                 /\ \E text \in {<<"Diff Error:">>, <<"applied">>} : Finish(text, "tool_ok")
                 /\ UNCHANGED <<builds, passed, tree, live>>
            [] tool_call.name = "compile_maven_stateful" /\ tool_call.args = EmptyArgs ->
                 /\ Finish(ToolError, "tool_error")
                 /\ UNCHANGED <<builds, passed, tree, live>>
            [] tool_call.name = "compile_maven_stateful" /\ tool_call.args # EmptyArgs ->
                 \E o \in BuildOutcomes :
                    \E run \in {CompileMaven(<<tool_call.args>>, o)} :
                       /\ IF run.raised
                          THEN Finish(ToolError, BuildOutcome(run, o))
                          ELSE Finish(MavenJson(run.ret.compilation_has_succeeded,
                                                run.ret.test_has_succeeded,
                                                run.ret.error_text),
                                      BuildOutcome(run, o))
                       /\ builds' = IF run.started THEN builds + 1 ELSE builds
                       /\ passed' = IF BuildPassed(run)
                                    THEN passed \cup {<<tool_call.args>>} ELSE passed
                       /\ tree' = run.tree
                       /\ live' = WithContainer(live, run.acquired)
    /\ UNCHANGED <<proposed_diff, result, guardVars, hookVars, auxVars>>

\* workflow.py 184-296 and the edge of line 351
compile_agent ==
    /\ node = "compile_agent"
    /\ StepAllowed
    /\ steps' = steps + 1
    /\ ran' = "compile_agent"
    /\ LET content == Last(messages).content
       IN IF ~HasTok(content, DiffFence)
          THEN /\ messages' = messages
               /\ node' = should_improve_non_test_diff(Last(messages))
               /\ outcome' = "no_diff"
               /\ UNCHANGED <<proposed_diff, builds, passed, tree, live>>
          ELSE IF content \in PolicyRejected
          THEN /\ messages' = Append(messages, VersionChangeError)
               /\ node' = should_improve_non_test_diff(VersionChangeError)
               /\ outcome' = "policy_violation"
               /\ UNCHANGED <<proposed_diff, builds, passed, tree, live>>
          ELSE \E o \in BuildOutcomes :
                  \E run \in {CompileMaven(content, o)} :
                  \E result_message \in
                        {IF run.raised
                         THEN ToolMessage(<<"Error executing compilation:">>)
                         ELSE ToolMessage(ResultContent(run.ret))} :
                     /\ messages' = Append(messages, result_message)
                     /\ node' = should_improve_non_test_diff(result_message)
                     /\ outcome' = BuildOutcome(run, o)
                     /\ proposed_diff' = content
                     /\ builds' = IF run.started THEN builds + 1 ELSE builds
                     /\ passed' = IF BuildPassed(run) THEN passed \cup {content} ELSE passed
                     /\ tree' = run.tree
                     /\ live' = WithContainer(live, run.acquired)
    /\ UNCHANGED <<result, guardVars, hookVars, auxVars>>

\* an engine that starts the graph again when its step limit is reached
RetryOnRecursionLimit ==
    [node |-> "agent", steps |-> 0, messages |-> initial_messages,
     proposed_diff |-> NoContent, builds |-> 0, passed |-> {},
     outcome |-> "none"]

\* the state in which GraphRecursionError leaves app.invoke
OnRecursionLimit ==
    [node |-> "raised", steps |-> steps, messages |-> messages,
     proposed_diff |-> proposed_diff, builds |-> builds, passed |-> passed,
     outcome |-> "GraphRecursionError"]

\* service.py 136-143: GraphRecursionError leaves app.invoke
RaiseRecursion ==
    /\ Running
    /\ ~StepAllowed
    /\ LET next == OnRecursionLimit
       IN /\ node' = next.node
          /\ steps' = next.steps
          /\ messages' = next.messages
          /\ proposed_diff' = next.proposed_diff
          /\ builds' = next.builds
          /\ passed' = next.passed
          /\ outcome' = next.outcome
    /\ UNCHANGED <<tree, result, ran, guardVars, hookVars, boxVars, auxVars>>

\* GitAgent.get_full_diff: the diff of the working tree against the commit
final_diff == tree

\* service.py 145-168 (app.invoke returned) and 170-187 (it raised)
ProcessResult ==
    /\ wpc = "agent"
    /\ node \in {"END", "raised"}
    /\ result = NoResult
    /\ result' = IF node = "END"
                 THEN [kind |-> "success",
                       diff |-> IF proposed_diff # NoContent
                                THEN proposed_diff ELSE final_diff,
                       error |-> "none", via_except |-> FALSE,
                       diagnostics |-> NoContent]
                 ELSE [kind |-> "error", diff |-> NoContent, error |-> outcome,
                       via_except |-> TRUE, diagnostics |-> NoContent]
    /\ wpc' = "save"
    /\ UNCHANGED <<status, calls, node, steps, messages, proposed_diff, builds,
                   tree, passed, ran, outcome, guardVars, boxVars, auxVars>>

(***************************************************************************)
(* The background run of a change (services/webhook_service.py 94-229)     *)
(* and the status it writes to the change record                           *)
(* (repositories/change_repository.py).                                    *)
(***************************************************************************)
TerminalStatuses == {"fixed", "failed"}

\* change_repository.py 77-84: the parameters of ChangeRepository.save_result
SaveResultParameters ==
    {"change_id", "suggested_fix", "diff", "breaking_changes", "output_path"}

\* callback.py 32-37: the arguments AgentCallback.save_result calls it with
SaveResultArguments == {"change_id", "suggested_fix", "diff", "modified_files"}

\* callback.py 26-37 and change_repository.py 77-101: callback.save_result
\* calls change_repo.save_result, which writes the diff and the status fixed.
\* A call whose arguments the definition does not take raises TypeError; the
\* except clause of webhook_service.py 227-229 then calls save_error
save_result(c) ==
    IF SaveResultArguments \subseteq SaveResultParameters
    THEN [status |-> "fixed",
          calls |-> [c EXCEPT !.save_result = @ + 1, !.diff_saved = TRUE]]
    ELSE [status |-> "failed",
          calls |-> [c EXCEPT !.save_result = @ + 1, !.save_error = @ + 1]]

\* callback.py 39-43 and change_repository.py 103-116
save_error(c) ==
    [status |-> "failed", calls |-> [c EXCEPT !.save_error = @ + 1]]

\* a run that goes on to the preparation after the missing manifest
ContinueAfterPomMissing == "prepare"

\* webhook_service.py 148-150: save_error and return
AfterPomMissing == "done"

\* webhook_service.py 118
BeginClone ==
    /\ wpc = "queued"
    /\ status' = "cloning"
    /\ wpc' = "clone"
    /\ calls' = calls
    /\ UNCHANGED <<flowVars, guardVars, boxVars, auxVars>>

\* webhook_service.py 120-150, and 227-229 when the clone raises
CloneRepo ==
    /\ wpc = "clone"
    /\ \/ status' = "cloning" /\ wpc' = "prepare" /\ calls' = calls
       \/ /\ status' = save_error(calls).status
          /\ calls' = save_error(calls).calls
          /\ wpc' = AfterPomMissing
       \/ /\ status' = save_error(calls).status
          /\ calls' = save_error(calls).calls
          /\ wpc' = "done"
    /\ UNCHANGED <<flowVars, guardVars, boxVars, auxVars>>

\* webhook_service.py 153
Prepare ==
    /\ wpc = "prepare"
    /\ status' = "preparing"
    /\ wpc' = "initial_build"
    /\ calls' = calls
    /\ UNCHANGED <<flowVars, guardVars, boxVars, auxVars>>

\* webhook_service.py 156-178, and 227-229 when the container does not start
\* or the build raises
InitialBuild ==
    /\ wpc = "initial_build"
    /\ \/ /\ status' = save_error(calls).status /\ calls' = save_error(calls).calls
          /\ wpc' = "done" /\ live' = WithContainer(live, FALSE)
       \/ /\ status' = save_error(calls).status /\ calls' = save_error(calls).calls
          /\ wpc' = "done" /\ live' = WithContainer(live, TRUE)
       \/ /\ status' = status /\ calls' = calls
          /\ wpc' = "analyze" /\ live' = WithContainer(live, TRUE)
       \/ /\ status' = "analyzing" /\ calls' = calls
          /\ wpc' = "recipe" /\ live' = WithContainer(live, TRUE)
    /\ UNCHANGED <<flowVars, guardVars, auxVars>>

\* webhook_service.py 179-198 with _try_recipe_based_fix, 247-295, and
\* recipe_orchestrator.py up to the entry of the block of line 311: the run
\* ends before it asks for a container, or start_container raises (its
\* finally clause runs with no container), or the container is started
RecipeFix ==
    /\ wpc = "recipe"
    /\ status' = "analyzing"
    /\ calls' = calls
    /\ \/ wpc' = "analyze" /\ live' = live
       \/ wpc' = "recipe_run" /\ live' = live + 1
    /\ UNCHANGED <<flowVars, guardVars, auxVars>>

\* recipe_orchestrator.py 311-411 inside the container and the finally clause
\* of recipe_executor.py 46-53: the rewrite fails, the compilation after it
\* fails, an exception is raised, or the fix succeeds (webhook_service.py 281)
RecipeRun ==
    /\ wpc = "recipe_run"
    /\ \/ /\ status' = "fixing" /\ wpc' = "recipe_save"
          /\ calls' = [calls EXCEPT !.succeeded = TRUE]
       \/ status' = status /\ wpc' = "analyze" /\ calls' = calls
    /\ live' = clean_up(live)
    /\ UNCHANGED <<flowVars, guardVars, auxVars>>

\* webhook_service.py 191-196
RecipeSave ==
    /\ wpc = "recipe_save"
    /\ status' = save_result(calls).status
    /\ calls' = save_result(calls).calls
    /\ wpc' = "done"
    /\ UNCHANGED <<flowVars, guardVars, boxVars, auxVars>>

\* webhook_service.py 204
Analyze ==
    /\ wpc = "analyze"
    /\ status' = "analyzing"
    /\ calls' = calls
    /\ wpc' = "agent"
    /\ UNCHANGED <<flowVars, guardVars, boxVars, auxVars>>

\* webhook_service.py 217-225
SaveOutcome ==
    /\ wpc = "save"
    /\ \E written \in {IF result.kind = "success"
                        THEN save_result([calls EXCEPT !.succeeded = TRUE])
                        ELSE save_error(calls)} :
          /\ status' = written.status
          /\ calls' = written.calls
    /\ wpc' = "done"
    /\ UNCHANGED <<flowVars, guardVars, boxVars, auxVars>>

\* webhook_service.py 47-56: the change record is created with status pending
Init ==
    /\ gDiff = [hdr |-> PomHeader, blocks |-> <<>>]
    /\ gPom = PomOnDisk
    /\ gOut = NotChecked
    /\ wpc = "queued" /\ status = "pending" /\ calls = NoCalls
    /\ FlowIdle
    /\ AuxIdle

Next ==
    \/ BeginClone
    \/ CloneRepo
    \/ Prepare
    \/ InitialBuild
    \/ RecipeFix
    \/ RecipeRun
    \/ RecipeSave
    \/ Analyze
    \/ Invoke
    \/ call_model
    \/ call_tools
    \/ compile_agent
    \/ RaiseRecursion
    \/ ProcessResult
    \/ SaveOutcome

Spec == Init /\ [][Next]_vars

\* every step of the background run ends: the language model and the build
\* have timeouts, and the run is one sequential task
FairSpec == Spec /\ WF_vars(Next)

(***************************************************************************)
(* Repair sessions of one server side by side.  The server runs its        *)
(* handlers and background tasks on one event loop: a session runs from    *)
(* one await to the next without interruption, and another session runs    *)
(* only while this one waits.  A webhook session                           *)
(* (services/webhook_service.py 94-229) clones into a directory of its     *)
(* own; a local session (api/routes/local_repos.py 238-449) works in the   *)
(* repository's directory of the workspace.                                *)
(***************************************************************************)
NumSessions == 2

SessionIds == 1..NumSessions

RepoNames == {"repoA", "repoB"}

\* the positions after which _run_agent_background awaits (webhook_service.py
\* 118, 133, 153, 204, 218): the event loop is free while it waits
WebhookAwaits == {"queued", "clone", "prepare", "build_end", "agent_end"}

\* a handler that awaits while its container builds
LocalAwaitsInBuild == {"build"}

\* the positions after which the local handler awaits: local_repos.py 238-449
\* holds no await
LocalAwaits == {}

\* the order of the positions of a session; a build is in progress at "build"
\* (the initial build) and at "agent_build" (a build of the agent)
NextPosition(pc) ==
    CASE pc = "queued" -> "clone"
      [] pc = "clone" -> "prepare"
      [] pc = "prepare" -> "build"
      [] pc = "build" -> "build_end"
      [] pc = "build_end" -> "agent_build"
      [] pc = "agent_build" -> "agent_end"
      [] pc = "agent_end" -> "done"
      [] OTHER -> "done"

Building(p) == p.pc \in {"build", "agent_build"}

\* between the moment the session has its tree and its end
Active(p) == p.pc \notin {"queued", "clone", "done"}

NoTree == <<"none", "none">>

ConcInit ==
    /\ sessions \in [proc : [SessionIds ->
                               [kind : {"webhook"}, repo : {"repoA"},
                                pc : {"queued"}, tree : {NoTree}, box : {0}]
                               \cup
                               [kind : {"local"}, repo : RepoNames,
                                pc : {"queued"}, tree : {NoTree}, box : {0}]],
                     loop : {0}, tmp : {0}, boxes : {0}]
    /\ gDiff = [hdr |-> PomHeader, blocks |-> <<>>]
    /\ gPom = PomOnDisk
    /\ gOut = NotChecked
    /\ wpc = "idle" /\ status = "pending" /\ calls = NoCalls
    /\ FlowIdle
    /\ fnIn = <<>> /\ fnOut = <<>>

\* one uninterrupted step of session s, taken when the event loop is free or
\* already runs s; the step ends at position pc'
SessionStep(s, awaits, tree_of) ==
    LET p == sessions.proc[s]
        to == NextPosition(p.pc)
        gets_tree == p.pc = "clone"
        starts_build == to \in {"build", "agent_build"}
        q == [p EXCEPT !.pc = to,
                       !.tree = IF gets_tree THEN tree_of ELSE @,
                       !.box = IF starts_build THEN sessions.boxes + 1 ELSE @]
    IN /\ p.pc # "done"
       /\ sessions.loop \in {0, s}
       /\ sessions' = [proc |-> [sessions.proc EXCEPT ![s] = q],
                       loop |-> IF p.pc \in awaits \/ to = "done" THEN 0 ELSE s,
                       tmp |-> IF gets_tree /\ p.kind = "webhook"
                               THEN sessions.tmp + 1 ELSE sessions.tmp,
                       boxes |-> IF starts_build THEN sessions.boxes + 1
                                 ELSE sessions.boxes]
       /\ UNCHANGED <<guardVars, hookVars, flowVars, boxVars, fnIn, fnOut>>

\* webhook_service.py 94-229: tempfile.mkdtemp gives a directory no other
\* session has (lines 121-122)
WebhookStep(s) ==
    /\ sessions.proc[s].kind = "webhook"
    /\ SessionStep(s, WebhookAwaits, <<"tmp", sessions.tmp + 1>>)

\* local_repos.py 238-449: the handler works in
\* local_repo_service.get_repository_path(repo_name) (line 261)
LocalStep(s) ==
    /\ sessions.proc[s].kind = "local"
    /\ SessionStep(s, LocalAwaits, <<"workspace", sessions.proc[s].repo>>)

ConcNext == \E s \in SessionIds : WebhookStep(s) \/ LocalStep(s)

ConcSpec == ConcInit /\ [][ConcNext]_vars

(***************************************************************************)
(* Applying a stored diff to the files of the fix branch                   *)
(* (services/github_service.py 360-462, api/routes/changes.py 195-255).    *)
(* A line is the sequence of its characters (a path counts as one), a      *)
(* file's content the sequence of its lines (content.split of line 424), a *)
(* diff the sequence of its lines.                                         *)
(***************************************************************************)
MaxHunkLines == 3

HasPrefix(line, pre) ==
    Len(line) >= Len(pre) /\ SubSeq(line, 1, Len(pre)) = pre

FileLines == { <<"a">>, <<"b">>, <<"-", "-">> }

Markers == {" ", "-", "+"}

HunkLines == { <<mk>> \o line : mk \in Markers, line \in FileLines }

OldHeader(path) == <<"-", "-", "-", " ", "a/", path>>

NewHeader(path) == <<"+", "+", "+", " ", "b/", path>>

\* the text of the diff of one file
FileDiff(path, hunk) == <<OldHeader(path), NewHeader(path)>> \o hunk

\* github_service.py 388-390 and 395-397: line[4:].strip() without its a/ or
\* b/ prefix
PathOf(line, prefix) ==
    LET rest == SubSeq(line, 5, Len(line))
    IN IF HasPrefix(rest, <<prefix>>) THEN SubSeq(rest, 2, Len(rest)) ELSE rest

\* github_service.py 376-415: the loop of parse_unified_diff from line i on;
\* current_file is <<>> while no file header has been read
RECURSIVE ParseFrom(_, _, _, _, _)
ParseFrom(lines, i, current_file, current_changes, file_changes) ==
    LET saved == IF current_file # <<>>
                 THEN Append(file_changes, [file_path |-> current_file,
                                            full_content |-> current_changes])
                 ELSE file_changes
    IN IF i > Len(lines)
       THEN saved
       ELSE IF HasPrefix(lines[i], <<"-", "-", "-", " ">>)
       THEN IF i + 1 <= Len(lines) /\ HasPrefix(lines[i + 1], <<"+", "+", "+", " ">>)
            THEN ParseFrom(lines, i + 2, PathOf(lines[i + 1], "b/"), <<>>, saved)
            ELSE ParseFrom(lines, i + 2, current_file, current_changes, saved)
       ELSE IF current_file # <<>>
       THEN ParseFrom(lines, i + 1, current_file,
                      Append(current_changes, lines[i]), file_changes)
       ELSE ParseFrom(lines, i + 1, current_file, current_changes, file_changes)

\* github_service.py 360-417
parse_unified_diff(diff_text) == ParseFrom(diff_text, 1, <<>>, <<>>, <<>>)

\* github_service.py 432
IsRemoval(hunk) == HasPrefix(hunk, <<"-">>) /\ ~HasPrefix(hunk, <<"-", "-", "-">>)

\* github_service.py 434
IsAddition(hunk) == HasPrefix(hunk, <<"+">>) /\ ~HasPrefix(hunk, <<"+", "+", "+">>)

\* hunk[1:] of lines 433 and 435
Tails(hunks) == [n \in 1..Len(hunks) |-> Tail(hunks[n])]

\* github_service.py 443-460: the replacement loop and the trailing additions
RECURSIVE ApplyFrom(_, _, _, _, _, _)
ApplyFrom(new_lines, i, removal_idx, removals, additions, result_lines) ==
    IF i > Len(new_lines)
    THEN result_lines \o SubSeq(additions, removal_idx + 1, Len(additions))
    ELSE IF removal_idx < Len(removals) /\ new_lines[i] = removals[removal_idx + 1]
    THEN ApplyFrom(new_lines, i + 1, removal_idx + 1, removals, additions,
                   IF removal_idx < Len(additions)
                   THEN Append(result_lines, additions[removal_idx + 1])
                   ELSE result_lines)
    ELSE ApplyFrom(new_lines, i + 1, removal_idx, removals, additions,
                   Append(result_lines, new_lines[i]))

\* github_service.py 419-462
apply_diff_to_content(original_content, diff_hunks) ==
    ApplyFrom(original_content, 1, 0,
              Tails(SelectSeq(diff_hunks, IsRemoval)),
              Tails(SelectSeq(diff_hunks, IsAddition)),
              <<>>)

\* the inverse of a diff: every added line removed, every removed line added
InverseLine(line) ==
    IF HasPrefix(line, <<"-", "-", "-", " ">>) \/ HasPrefix(line, <<"+", "+", "+", " ">>)
    THEN line
    ELSE IF HasPrefix(line, <<"-">>) THEN <<"+">> \o Tail(line)
    ELSE IF HasPrefix(line, <<"+">>) THEN <<"-">> \o Tail(line)
    ELSE line

Inverse(diff_text) == [n \in 1..Len(diff_text) |-> InverseLine(diff_text[n])]

\* the lines a hunk expects in the file
OldSide(hunk) ==
    LET Old(h) == HasPrefix(h, <<"-">>) \/ HasPrefix(h, <<" ">>)
    IN Tails(SelectSeq(hunk, Old))

BranchPaths == {"A.java", "B.java"}

RECURSIVE SeqsUpTo(_, _)
SeqsUpTo(S, n) ==
    IF n = 0 THEN {<<>>}
    ELSE LET shorter == SeqsUpTo(S, n - 1)
         IN shorter \cup {Append(q, x) : q \in shorter, x \in S}

\* one file and a diff of the whole file: the old side of the hunk is the
\* file's content
OneFileInputs(longest) ==
    { [files |-> [f \in BranchPaths |-> IF f = "A.java" THEN OldSide(h) ELSE <<<<"a">>>>],
       diff |-> FileDiff("A.java", h)] :
        h \in {q \in SeqsUpTo(HunkLines, longest) : OldSide(q) # <<>>} }

\* two files and a diff with one hunk for each of them
TwoFileInputs ==
    LET Hunks == { << <<"-", "a">>, <<"+", "b">> >>, << <<" ", "a">>, <<"+", "b">> >> }
        Contents == { <<<<"a">>>>, <<<<"b">>>> }
    IN { [files |-> [f \in BranchPaths |-> IF f = "A.java" THEN ca ELSE cb],
          diff |-> FileDiff("A.java", ha) \o FileDiff("B.java", hb)] :
           ca \in Contents, cb \in Contents, ha \in Hunks, hb \in Hunks }

\* every variable of the repair session at rest
SessionAtRest ==
    /\ gDiff = [hdr |-> PomHeader, blocks |-> <<>>]
    /\ gPom = PomOnDisk
    /\ gOut = NotChecked
    /\ wpc = "idle" /\ status = "pending" /\ calls = NoCalls
    /\ FlowIdle
    /\ sessions = <<>>

ApplyInit ==
    /\ fnIn \in OneFileInputs(MaxHunkLines) \cup TwoFileInputs
    /\ fnOut = [branch |-> fnIn.files, queue |-> parse_unified_diff(fnIn.diff),
                updated |-> <<>>, complete |-> TRUE, pass |-> 1,
                phase |-> "applying"]
    /\ SessionAtRest

\* changes.py 205-247: one round of the loop over file_changes; the file is
\* read from the branch, the hunk applied and the result committed, unless
\* the read or the commit fails
UpdateFile ==
    /\ fnOut # <<>>
    /\ fnOut.phase = "applying"
    /\ fnOut.queue # <<>>
    /\ LET file_change == Head(fnOut.queue)
           file_path == file_change.file_path
       IN \E ok \in BOOLEAN :
            IF ok /\ Len(file_path) = 1 /\ file_path[1] \in BranchPaths
            THEN LET new_content ==
                         apply_diff_to_content(fnOut.branch[file_path[1]],
                                               file_change.full_content)
                 IN fnOut' = [fnOut EXCEPT
                                !.branch = [@ EXCEPT ![file_path[1]] = new_content],
                                !.updated = Append(@, file_path),
                                !.queue = Tail(@)]
            ELSE fnOut' = [fnOut EXCEPT !.queue = Tail(@), !.complete = FALSE]
    /\ UNCHANGED <<fnIn, sessions, guardVars, hookVars, flowVars, boxVars>>

\* changes.py 249-255: HTTPException 500 when no file was updated, else the
\* pull request is created
FinishPullRequest ==
    /\ fnOut # <<>>
    /\ fnOut.phase = "applying"
    /\ fnOut.queue = <<>>
    /\ fnOut' = [fnOut EXCEPT !.phase = IF fnOut.updated = <<>>
                                        THEN "failed" ELSE "created"]
    /\ UNCHANGED <<fnIn, sessions, guardVars, hookVars, flowVars, boxVars>>

\* the same application run with the inverse of the diff on the files the
\* first application left
ApplyInverse ==
    /\ fnOut # <<>>
    /\ fnOut.phase = "created"
    /\ fnOut.pass = 1
    /\ fnOut' = [fnOut EXCEPT !.queue = parse_unified_diff(Inverse(fnIn.diff)),
                              !.updated = <<>>, !.pass = 2,
                              !.phase = "applying"]
    /\ UNCHANGED <<fnIn, sessions, guardVars, hookVars, flowVars, boxVars>>

ApplyNext == UpdateFile \/ FinishPullRequest \/ ApplyInverse

ApplySpec == ApplyInit /\ [][ApplyNext]_vars

(***************************************************************************)
(* The extraction of dependency changes from a pom.xml diff                *)
(* (masterthesis/agent/JapiCmpAgent.py 616-689).  A line is its diff       *)
(* marker, its indentation and the tokens of its content.                  *)
(***************************************************************************)
MaxDepBlocks == 2

DepFields == {"group", "artifact", "old", "new"}

\* "closed": the block from <dependency> to </dependency>; "exclusion": a
\* closed block with an <exclusion> after its version lines; "cut": the
\* hunk ends before the closing tag
DepShapes == {"closed", "exclusion", "cut"}

DepBlocks == [fields : SUBSET DepFields, shape : DepShapes]

\* the values of the n-th block of a diff
GroupOf(n) == IF n = 1 THEN "org.a" ELSE IF n = 2 THEN "org.b" ELSE "org.c"

ArtifactOf(n) == IF n = 1 THEN "lib-a" ELSE IF n = 2 THEN "lib-b" ELSE "lib-c"

OldOf(n) == IF n = 1 THEN "1.0" ELSE IF n = 2 THEN "2.0" ELSE "3.0"

NewOf(n) == IF n = 1 THEN "1.1" ELSE IF n = 2 THEN "2.1" ELSE "3.1"

PomLine(mk, tokens) == <<mk, " ">> \o tokens

\* the lines of the n-th block in a pom.xml diff
BlockLines(b, n) ==
    << PomLine(" ", <<"<dependency>">>) >>
    \o (IF "group" \in b.fields
        THEN << PomLine(" ", <<"<groupId>", GroupOf(n), "</groupId>">>) >> ELSE <<>>)
    \o (IF "artifact" \in b.fields
        THEN << PomLine(" ", <<"<artifactId>", ArtifactOf(n), "</artifactId>">>) >>
        ELSE <<>>)
    \o (IF "old" \in b.fields
        THEN << PomLine("-", <<"<version>", OldOf(n), "</version>">>) >> ELSE <<>>)
    \o (IF "new" \in b.fields
        THEN << PomLine("+", <<"<version>", NewOf(n), "</version>">>) >> ELSE <<>>)
    \o (IF b.shape = "exclusion"
        THEN << PomLine(" ", <<"<exclusion>">>),
                PomLine(" ", <<"<groupId>", "org.excluded", "</groupId>">>),
                PomLine(" ", <<"<artifactId>", "lib-excluded", "</artifactId>">>),
                PomLine(" ", <<"</exclusion>">>) >>
        ELSE <<>>)
    \o (IF b.shape = "cut"
        THEN << <<"@@">> >>
        ELSE << PomLine(" ", <<"</dependency>">>) >>)

RECURSIVE PomDiffFrom(_, _)
PomDiffFrom(blocks, n) ==
    IF n > Len(blocks) THEN <<>>
    ELSE BlockLines(blocks[n], n) \o PomDiffFrom(blocks, n + 1)

PomDiff(blocks) == PomDiffFrom(blocks, 1)

\* str.strip() of a line of tokens
StripBoth(line) ==
    LET inner == {i \in 1..Len(line) : line[i] # " "}
    IN IF inner = {} THEN <<>>
       ELSE SubSeq(line, CHOOSE i \in inner : \A j \in inner : i <= j,
                         CHOOSE i \in inner : \A j \in inner : j <= i)

\* re.search(r"<t>(.*?)</t>", content): whether it matches, and group(1)
LazyGroup(content, open, close) ==
    LET hits == {i \in 1..Len(content) :
                    /\ content[i] = open
                    /\ \E j \in (i + 1)..Len(content) : content[j] = close}
    IN IF hits = {}
       THEN [found |-> FALSE, group |-> <<>>]
       ELSE LET i == CHOOSE h \in hits : \A k \in hits : h <= k
                j == CHOOSE c \in (i + 1)..Len(content) :
                         /\ content[c] = close
                         /\ \A k \in (i + 1)..(c - 1) : content[k] # close
            IN [found |-> TRUE, group |-> SubSeq(content, i + 1, j - 1)]

DependencyChange(group_id, artifact_id, old_version, new_version) ==
    [group_id |-> group_id, artifact_id |-> artifact_id,
     old_version |-> old_version, new_version |-> new_version]

\* JapiCmpAgent.py 621-627: the extractor before the first line; an unset
\* field and an empty match are both <<>>, which line 664 treats alike
ExtractorStart ==
    [group_id |-> <<>>, artifact_id |-> <<>>, old_version |-> <<>>,
     new_version |-> <<>>, in_dependency |-> FALSE, changes |-> <<>>]

\* JapiCmpAgent.py 664 and 679
AllFour(st) ==
    /\ st.group_id # <<>> /\ st.artifact_id # <<>>
    /\ st.old_version # <<>> /\ st.new_version # <<>>

Emit(st) ==
    IF AllFour(st)
    THEN Append(st.changes, DependencyChange(st.group_id, st.artifact_id,
                                             st.old_version, st.new_version))
    ELSE st.changes

\* JapiCmpAgent.py 629-677: the body of the loop for one line
ExtractLine(st, raw_line) ==
    LET line == StripBoth(raw_line)
        content == IF line # <<>> /\ line[1] \in {"+", "-", " "}
                   THEN StripBoth(Tail(line)) ELSE line
        in_dep == st.in_dependency \/ HasTok(content, "<dependency>")
        group_match == LazyGroup(content, "<groupId>", "</groupId>")
        artifact_match == LazyGroup(content, "<artifactId>", "</artifactId>")
        version_match == LazyGroup(content, "<version>", "</version>")
        read == [st EXCEPT
                   !.in_dependency = in_dep,
                   !.group_id = IF in_dep /\ group_match.found
                                THEN group_match.group ELSE @,
                   !.artifact_id = IF in_dep /\ artifact_match.found
                                   THEN artifact_match.group ELSE @,
                   !.old_version = IF /\ in_dep /\ StartsWith(line, "-")
                                      /\ HasTok(content, "<version>")
                                      /\ version_match.found
                                   THEN version_match.group ELSE @,
                   !.new_version = IF /\ in_dep /\ StartsWith(line, "+")
                                      /\ HasTok(content, "<version>")
                                      /\ version_match.found
                                   THEN version_match.group ELSE @]
    IN IF line = <<>> THEN st
       ELSE IF HasTok(content, "</dependency>")
       THEN [ExtractorStart EXCEPT !.changes = Emit(read)]
       ELSE read

RECURSIVE ExtractFrom(_, _, _)
ExtractFrom(lines, i, st) ==
    IF i > Len(lines) THEN st
    ELSE ExtractFrom(lines, i + 1, ExtractLine(st, lines[i]))

\* JapiCmpAgent.py 678-687: the block that never closed
EmitAtEnd(st) == Emit(st)

\* JapiCmpAgent.py 616-689
extract_dependency_changes(pom_diff) ==
    IF pom_diff = <<>> THEN <<>>
    ELSE EmitAtEnd(ExtractFrom(pom_diff, 1, ExtractorStart))

ExtractInit ==
    /\ fnIn \in SeqsUpTo(DepBlocks, MaxDepBlocks)
    /\ fnOut = [done |-> FALSE, changes |-> <<>>]
    /\ SessionAtRest

ExtractChanges ==
    /\ fnOut # <<>>
    /\ ~fnOut.done
    /\ fnOut' = [done |-> TRUE, changes |-> extract_dependency_changes(PomDiff(fnIn))]
    /\ UNCHANGED <<fnIn, sessions, guardVars, hookVars, flowVars, boxVars>>

ExtractNext == ExtractChanges

ExtractSpec == ExtractInit /\ [][ExtractNext]_vars

(***************************************************************************)
(* The diagnostics of a failed build (agents/tools.py 422-470): for every  *)
(* file of find_compilation_errors the file is read from the working tree  *)
(* and every line with diagnostics gets one entry.                         *)
(***************************************************************************)
MaxFileLines == 3

MaxErrors == 2

Columns == {1, 5}

Messages == {"cannot find symbol", "incompatible types"}

\* the lines of the file in the checked-out tree
CleanFile(n) == SubSeq(<<"line one", "line two", "line three", "line four">>, 1, n)

\* the file the build compiled: the diff has put inserted lines before the
\* first line of the file
BuiltFile(input) ==
    (IF input.inserted = 1 THEN <<"inserted line">> ELSE <<>>) \o CleanFile(input.length)

\* the triples (line, column, message) find_compilation_errors returns for
\* the file: the lines are lines of the file that was compiled
ErrorTriples(n) == (1..n) \X Columns \X Messages

ParseInputs(most) ==
    UNION { [length : {n}, inserted : {k}, newline : BOOLEAN, readable : BOOLEAN,
             errors : SeqsUpTo(ErrorTriples(n + k), most) \ {<<>>}] :
                n \in 1..MaxFileLines, k \in {0, 1} }

\* tools.py 434: _read_file(filename).split("\n"); the text of a file that
\* ends with a newline splits into its lines and one empty string.  The file
\* is read after the discard() of line 420, from the checked-out tree.
SplitLines(input) ==
    CleanFile(input.length) \o (IF input.newline THEN <<"">> ELSE <<>>)

\* tools.py 440: f"[{line},{col}] " + error_msg
DiagnosticText(triple) == <<"[", triple[1], ",", triple[2], "]", triple[3]>>

\* a list that keeps every text it is given
AppendText(texts, t) == Append(texts, t)

\* tools.py 437 and 440: error_texts_per_line[line] is a set
AddText(texts, t) ==
    IF \E i \in 1..Len(texts) : texts[i] = t THEN texts ELSE Append(texts, t)

\* tools.py 439-440: the texts of line, in the order they were first seen
RECURSIVE TextsOfLine(_, _, _, _)
TextsOfLine(error_triple, i, line, texts) ==
    IF i > Len(error_triple) THEN texts
    ELSE TextsOfLine(error_triple, i + 1, line,
                     IF error_triple[i][1] = line
                     THEN AddText(texts, DiagnosticText(error_triple[i]))
                     ELSE texts)

\* tools.py 442: the keys of error_texts_per_line, in the order of insertion
RECURSIVE LinesWithErrors(_, _, _)
LinesWithErrors(error_triple, i, keys) ==
    IF i > Len(error_triple) THEN keys
    ELSE LinesWithErrors(error_triple, i + 1,
                         IF \E k \in 1..Len(keys) : keys[k] = error_triple[i][1]
                         THEN keys ELSE Append(keys, error_triple[i][1]))

Min(a, b) == IF a <= b THEN a ELSE b

\* tools.py 444-458: the context of a line; range(start, end) is 0-based
ContextLines(lines, line) ==
    LET line_index == line - 1
        start == Max(0, line_index - 1)
        end == Min(Len(lines), line_index + 2)
    IN [n \in 1..Max(0, end - start) |->
            [line_no |-> start + n, content |-> lines[start + n]]]

\* tools.py 432-465: output_errors[filename]; when the file cannot be read
\* the entry "error" holds the text of all triples
CompileErrorDetails(input) ==
    IF ~input.readable
    THEN [entries |-> <<>>, error |-> <<input.errors>>]
    ELSE LET keys == LinesWithErrors(input.errors, 1, <<>>)
         IN [entries |-> [k \in 1..Len(keys) |->
                            [line |-> keys[k],
                             lines |-> ContextLines(SplitLines(input), keys[k]),
                             error_texts |-> TextsOfLine(input.errors, 1, keys[k], <<>>)]],
             error |-> <<>>]

ParseInit ==
    /\ fnIn \in ParseInputs(MaxErrors)
    /\ fnOut = [done |-> FALSE, entries |-> <<>>, error |-> <<>>]
    /\ SessionAtRest

ParseErrors ==
    /\ fnOut # <<>>
    /\ ~fnOut.done
    /\ LET details == CompileErrorDetails(fnIn)
       IN fnOut' = [done |-> TRUE, entries |-> details.entries, error |-> details.error]
    /\ UNCHANGED <<fnIn, sessions, guardVars, hookVars, flowVars, boxVars>>

ParseNext == ParseErrors

ParseSpec == ParseInit /\ [][ParseNext]_vars

(***************************************************************************)
(* The error text a build returns (agents/tools.py 56-65, 404-425,         *)
(* 477-501).  A text is the sequence of its lines, a line the sequence of  *)
(* its whitespace-separated parts, a part the sequence of its tokens.      *)
(***************************************************************************)
MaxErrorLines == 2

SandboxPrefix == "/mnt/repo/"

\* str(repo_path), the directory of the project on the host
ProjectPath == "/tmp/aura_repo_x"

\* the lines of the output of a build in the sandbox
OutputLines ==
    { << <<"[ERROR]">>, <<SandboxPrefix, "src/Foo.java:[3,5]">> >>,
      << <<"[ERROR]">>, <<ProjectPath, "/src/Foo.java">> >>,
      << <<"[ERROR]">>, <<"file:", ProjectPath, "/pom.xml">> >>,
      << <<"Tests">>, <<"run:">>, <<SandboxPrefix, "target/surefire-reports">> >>,
      << <<"Downloaded">>, <<"from">>, <<"central:">> >>,
      << <<"Downloading">>, <<"from">>, <<"central:">> >>,
      << <<"[ERROR]">>, <<"cannot">>, <<"find">>, <<"symbol">> >> }

\* "Downloaded from" in line, "Downloading from" in line
IsDownloadLine(line) ==
    \E i \in 1..(Len(line) - 1) :
        /\ line[i] \in {<<"Downloaded">>, <<"Downloading">>}
        /\ line[i + 1] = <<"from">>

\* tools.py 59: part[len(project_path):] if part.startswith(project_path)
StripProjectPath(text_part) ==
    IF StartsWith(text_part, ProjectPath) THEN Tail(text_part) ELSE text_part

\* tools.py 56-65: process_error_text (a line is never empty after the join)
process_error_text(error_text) ==
    LET kept == SelectSeq(error_text, LAMBDA line : ~IsDownloadLine(line))
    IN [n \in 1..Len(kept) |->
          [k \in 1..Len(kept[n]) |-> StripProjectPath(kept[n][k])]]

\* str.replace("/mnt/repo/", "") on every part of every line
ReplaceSandboxPrefix(error_text) ==
    [n \in 1..Len(error_text) |->
       [k \in 1..Len(error_text[n]) |->
          SelectSeq(error_text[n][k], LAMBDA tok : tok # SandboxPrefix)]]

\* tools.py 422-425: the prefix is removed in the branch of a failed
\* compilation only
ReplaceWhenCompilationFailed(error_text, compilation_has_succeeded) ==
    IF compilation_has_succeeded THEN error_text
    ELSE ReplaceSandboxPrefix(error_text)

\* tools.py 400-425 and 477-492: the error_text of the MavenReturn
ReturnedErrorText(error_text, compilation_has_succeeded, test_has_succeeded) ==
    LET processed == process_error_text(error_text)
        replaced == ReplaceWhenCompilationFailed(processed, compilation_has_succeeded)
    IN IF ~compilation_has_succeeded \/ ~test_has_succeeded
       THEN replaced
       ELSE <<>>

BuildResults ==
    { [compilation_has_succeeded |-> FALSE, test_has_succeeded |-> FALSE],
      [compilation_has_succeeded |-> TRUE, test_has_succeeded |-> FALSE],
      [compilation_has_succeeded |-> TRUE, test_has_succeeded |-> TRUE] }

OutputInputs(longest) ==
    [error_text : SeqsUpTo(OutputLines, longest), build : BuildResults]

OutputInit ==
    /\ fnIn \in OutputInputs(MaxErrorLines)
    /\ fnOut = [done |-> FALSE, error_text |-> <<>>]
    /\ SessionAtRest

ReturnMaven ==
    /\ fnOut # <<>>
    /\ ~fnOut.done
    /\ fnOut' = [done |-> TRUE,
                 error_text |-> ReturnedErrorText(fnIn.error_text,
                                                  fnIn.build.compilation_has_succeeded,
                                                  fnIn.build.test_has_succeeded)]
    /\ UNCHANGED <<fnIn, sessions, guardVars, hookVars, flowVars, boxVars>>

OutputNext == ReturnMaven

OutputSpec == OutputInit /\ [][OutputNext]_vars

(***************************************************************************)
(* Tool-call history (agents/tools.py 42-51, 244-253).  execution_details  *)
(* is a dict of the module, keyed by commit hash; the closure              *)
(* log_tool_execution that get_tools_for_repo builds for a session appends *)
(* to the entry of the session's commit hash.  process_repository          *)
(* (agents/service.py 58-197) is synchronous, so the sessions of a process *)
(* run one after another.  An entry carries the session that wrote it as a *)
(* tag the program does not keep.                                          *)
(***************************************************************************)
MaxToolCalls == 2

\* webhook_service.py 211 (the commit of the push) and local_repos.py 277
CommitHashes == {"4f2a9c1", "local"}

\* three of the keys of the defaultdict factory, tools.py 43-50
ToolNames == {"compile_maven", "read_file", "reset_repo"}

\* tools.py 42-51: the defaultdict yields empty lists for a new commit hash
NewExecutionDetails == [h \in CommitHashes |-> <<>>]

CallsOf(details, s) ==
    Cardinality({<<h, n>> \in CommitHashes \X (1..(NumSessions * MaxToolCalls)) :
                    n <= Len(details[h]) /\ details[h][n].session = s})

HistoryInit ==
    /\ fnIn \in [SessionIds -> CommitHashes]
    /\ fnOut = [execution_details |-> NewExecutionDetails,
                phase |-> [s \in SessionIds |-> "new"]]
    /\ SessionAtRest

\* service.py 95-99, tools.py 222-242: the tools of a session are built
GetToolsForRepo(s) ==
    /\ fnOut # <<>>
    /\ fnOut.phase[s] = "new"
    /\ \A t \in SessionIds : fnOut.phase[t] # "tools"
    /\ fnOut' = [fnOut EXCEPT !.phase[s] = "tools"]
    /\ UNCHANGED <<fnIn, sessions, guardVars, hookVars, flowVars, boxVars>>

\* tools.py 244-253: execution_details[commit_hash][tool_name].append(details)
LogToolExecution(s, tool_name) ==
    /\ fnOut # <<>>
    /\ fnOut.phase[s] = "tools"
    /\ CallsOf(fnOut.execution_details, s) < MaxToolCalls
    /\ fnOut' = [fnOut EXCEPT !.execution_details[fnIn[s]] =
                     Append(@, [tool_name |-> tool_name, session |-> s])]
    /\ UNCHANGED <<fnIn, sessions, guardVars, hookVars, flowVars, boxVars>>

\* service.py 136-197: app.invoke has returned and process_repository ends
EndProcessRepository(s) ==
    /\ fnOut # <<>>
    /\ fnOut.phase[s] = "tools"
    /\ fnOut' = [fnOut EXCEPT !.phase[s] = "done"]
    /\ UNCHANGED <<fnIn, sessions, guardVars, hookVars, flowVars, boxVars>>

HistoryNext ==
    \E s \in SessionIds :
        \/ GetToolsForRepo(s)
        \/ \E tool_name \in ToolNames : LogToolExecution(s, tool_name)
        \/ EndProcessRepository(s)

HistorySpec == HistoryInit /\ [][HistoryNext]_vars

(***************************************************************************)
(* RecipeOrchestrator.process_breaking_change (recipe_agent/               *)
(* recipe_orchestrator.py 113-411).  The working tree is described by what *)
(* the run can leave in it: the file rewrite.yaml, the rewrite-maven-plugin *)
(* in pom.xml, and the edits of mvn rewrite:run.  The LLM analysis, the    *)
(* file system, the container and Maven are the environment.               *)
(***************************************************************************)
RecipeNames == {"org.openrewrite.maven.UpgradeDependency",
                "org.openrewrite.maven.AddDependency",
                "org.openrewrite.java.ChangeType"}

\* the tree at the entry of process_breaking_change
EntryTree == [yaml |-> FALSE, plugin |-> FALSE, edits |-> FALSE]

\* recipe_generator.py 387-391: cleanup removes rewrite.yaml and nothing else
cleanup(t) == [t EXCEPT !.yaml = FALSE]

\* recipe_orchestrator.py 474-519
remove_rewrite_plugin_from_pom(t) == [t EXCEPT !.plugin = FALSE]

\* recipe_orchestrator.py 464-472: git checkout -- . and git clean -fd
revert_changes(t) == EntryTree

Returned(path, t) == [pc |-> "returned", ret |-> path, tree |-> t]

At(pc, t) == [pc |-> pc, ret |-> "none", tree |-> t]

RecipeInit ==
    /\ fnIn \in [can_use_recipes : BOOLEAN, selected_recipes : SUBSET RecipeNames,
                 has_pom : BOOLEAN]
    /\ fnOut = At("analyze", EntryTree)
    /\ SessionAtRest

\* recipe_orchestrator.py 143-176
AnalyzeBreakingChange ==
    /\ fnOut # <<>>
    /\ fnOut.pc = "analyze"
    /\ fnOut' = IF ~fnIn.can_use_recipes \/ fnIn.selected_recipes = {}
                THEN Returned("not_applicable", fnOut.tree)
                ELSE At("generate", fnOut.tree)
    /\ UNCHANGED <<fnIn, sessions, guardVars, hookVars, flowVars, boxVars>>

\* recipe_orchestrator.py 258-280 and the except clause of 294-303
WriteRewriteYaml ==
    /\ fnOut # <<>>
    /\ fnOut.pc = "generate"
    /\ \/ fnOut' = At("plugin", [fnOut.tree EXCEPT !.yaml = TRUE])
       \/ fnOut' = Returned("generate_error", cleanup(fnOut.tree))
    /\ UNCHANGED <<fnIn, sessions, guardVars, hookVars, flowVars, boxVars>>

\* recipe_orchestrator.py 283-292 with recipe_generator.py 198-262
AddRewritePluginToPom ==
    /\ fnOut # <<>>
    /\ fnOut.pc = "plugin"
    /\ \/ /\ fnIn.has_pom
          /\ fnOut' = At("start", [fnOut.tree EXCEPT !.plugin = TRUE])
       \/ fnOut' = Returned("plugin_failed", cleanup(fnOut.tree))
    /\ UNCHANGED <<fnIn, sessions, guardVars, hookVars, flowVars, boxVars>>

\* recipe_orchestrator.py 310-311 and the except clause of 402-411
StartRecipeContainer ==
    /\ fnOut # <<>>
    /\ fnOut.pc = "start"
    /\ \/ fnOut' = At("rewrite", fnOut.tree)
       \/ fnOut' = Returned("exception", cleanup(fnOut.tree))
    /\ UNCHANGED <<fnIn, sessions, guardVars, hookVars, flowVars, boxVars>>

\* recipe_orchestrator.py 313-333: mvn rewrite:run edits the tree; a failed
\* run may have edited it or not
RunRewrite ==
    /\ fnOut # <<>>
    /\ fnOut.pc = "rewrite"
    /\ \/ fnOut' = At("compile", [fnOut.tree EXCEPT !.edits = TRUE])
       \/ \E edited \in BOOLEAN :
             fnOut' = Returned("rewrite_failed",
                               cleanup([fnOut.tree EXCEPT !.edits = edited]))
       \/ fnOut' = Returned("exception", cleanup(fnOut.tree))
    /\ UNCHANGED <<fnIn, sessions, guardVars, hookVars, flowVars, boxVars>>

\* recipe_orchestrator.py 335-411
CompileAfterRewrite ==
    /\ fnOut # <<>>
    /\ fnOut.pc = "compile"
    /\ \/ fnOut' = Returned("success",
                      revert_changes(remove_rewrite_plugin_from_pom(cleanup(fnOut.tree))))
       \/ fnOut' = Returned("compile_failed", cleanup(revert_changes(fnOut.tree)))
       \/ fnOut' = Returned("exception", cleanup(fnOut.tree))
    /\ UNCHANGED <<fnIn, sessions, guardVars, hookVars, flowVars, boxVars>>

RecipeNext ==
    \/ AnalyzeBreakingChange
    \/ WriteRewriteYaml
    \/ AddRewritePluginToPom
    \/ StartRecipeContainer
    \/ RunRewrite
    \/ CompileAfterRewrite

RecipeSpec == RecipeInit /\ [][RecipeNext]_vars

(***************************************************************************)
(* RecipeExecutor (recipe_agent/recipe_executor.py).  self.container is    *)
(* None after __init__ and is set by start_container; running tells        *)
(* whether the container it names exists.  The log records every call of   *)
(* run_rewrite, run_rewrite_dry_run and compile_after_rewrite with the     *)
(* phase of the executor at the call and how the call ended.               *)
(***************************************************************************)
MaxCalls == 2

ExecutorMethods == {"run_rewrite", "run_rewrite_dry_run", "compile_after_rewrite"}

\* recipe_executor.py 26-29
NewExecutor ==
    [phase |-> "before", container |-> "None", running |-> FALSE, log |-> <<>>]

\* recipe_executor.py 66-67, 151-152, 193-194 and the try blocks after them:
\* the guard looks at self.container only; exec_run on a container that is
\* gone raises, and the except clause returns the failure
CallResult(x) ==
    IF x.container = "None" THEN "RuntimeError"
    ELSE IF x.running THEN "executed"
    ELSE "sent_to_torn_down_container"

ExecutorInit ==
    /\ fnIn \in [start_fails : BOOLEAN]
    /\ fnOut = NewExecutor
    /\ SessionAtRest

\* recipe_executor.py 31-45: the body of the with statement is entered, or
\* execute_command_with_mounts raises and the finally clause runs at once
StartContainer ==
    /\ fnOut # <<>>
    /\ fnOut.phase = "before"
    /\ fnOut' = IF fnIn.start_fails
                THEN [fnOut EXCEPT !.phase = "after"]
                ELSE [fnOut EXCEPT !.phase = "inside", !.container = "container",
                                   !.running = TRUE]
    /\ UNCHANGED <<fnIn, sessions, guardVars, hookVars, flowVars, boxVars>>

\* recipe_executor.py 46-53: the finally clause tears the container down and
\* leaves self.container as it is
ExitContainer ==
    /\ fnOut # <<>>
    /\ fnOut.phase = "inside"
    /\ fnOut' = [fnOut EXCEPT !.phase = "after", !.running = FALSE]
    /\ UNCHANGED <<fnIn, sessions, guardVars, hookVars, flowVars, boxVars>>

\* recipe_executor.py 55-148, 150-184, 186-222
CallExecutor(method) ==
    /\ fnOut # <<>>
    /\ Len(fnOut.log) < MaxCalls
    /\ fnOut' = [fnOut EXCEPT !.log =
                    Append(@, [method |-> method, phase |-> fnOut.phase,
                               result |-> CallResult(fnOut)])]
    /\ UNCHANGED <<fnIn, sessions, guardVars, hookVars, flowVars, boxVars>>

ExecutorNext ==
    \/ StartContainer
    \/ ExitContainer
    \/ \E method \in ExecutorMethods : CallExecutor(method)

ExecutorSpec == ExecutorInit /\ [][ExecutorNext]_vars

(***************************************************************************)
(* What a diff means, read off its description (not off its text).         *)
(***************************************************************************)
\* the diff is a diff of the manifest at the root of the tree
ManifestDiff(d) == d.hdr.dir = <<>> /\ Lower(d.hdr.file) = PomFile

\* the manifest on disk declares the coordinate
OnDisk(pom, coord) ==
    /\ pom.exists
    /\ Contains(pom.content, <<"<groupId>", coord[1], "</groupId>",
                               "<artifactId>", coord[2], "</artifactId>">>)

\* the block is present before and after the diff and its version differs
ChangesVersion(b) ==
    /\ b.mg \in {"ctx", "chg"}
    /\ b.ma \in {"ctx", "chg"}
    /\ b.mv = "chg"
    /\ b.versions[1] # b.versions[2]

BlocksOf(d) == {d.blocks[n] : n \in 1..Len(d.blocks)}

ChangedOnDisk(d, pom) ==
    {b \in BlocksOf(d) : ChangesVersion(b) /\ OnDisk(pom, b.coord)}

\* every block of the diff is a new block (all of its lines are added) or is
\* pure context, and at least one is new
PureAddition(d) ==
    /\ ManifestDiff(d)
    /\ \A b \in BlocksOf(d) : BlockWhole(b, "add") \/ BlockWhole(b, "ctx")
    /\ \E b \in BlocksOf(d) : BlockWhole(b, "add")

BlocklistedNames ==
    {forbidden_files_strict[k] : k \in 1..Len(forbidden_files_strict)}

\* the file the diff touches is a blocklisted build file, wherever it lies
TouchesBlocklisted(d) == Lower(d.hdr.file) \in BlocklistedNames

(***************************************************************************)
(* Claims.                                                                 *)
(***************************************************************************)

\* C1: a manifest diff that changes the version of a coordinate declared in
\* the on-disk manifest is rejected by the guard with a message naming the
\* coordinate and both versions, whichever of the block's lines are context.
C1_VersionChangeRejected ==
    (gOut.done /\ ManifestDiff(gDiff) /\ ChangedOnDisk(gDiff, gPom) # {})
    => /\ ~gOut.guard.allowed
       /\ \E b \in ChangedOnDisk(gDiff, gPom) :
             gOut.guard.message =
                 Blocked(b.coord, b.versions[1], b.versions[2]).message

\* C2: a manifest diff that only adds new dependency blocks is allowed by the
\* guard, with an empty message.
C2_PureAdditionAllowed ==
    (gOut.done /\ PureAddition(gDiff))
    => (gOut.guard.allowed /\ gOut.guard.message = <<>>)

\* C2 witness: the guard has run on a pure addition of a block whose
\* coordinate the on-disk manifest already declares
C2_Witness ==
    /\ gOut.done
    /\ PureAddition(gDiff)
    /\ \E b \in BlocksOf(gDiff) : BlockWhole(b, "add") /\ OnDisk(gPom, b.coord)

\* C3: a diff that touches build.gradle, build.gradle.kts or settings.gradle is
\* rejected by _compile_maven with a BLOCKED message before any build,
\* whatever the file's directory and the form of its header.
C3_BlocklistUnconditional ==
    (gOut.done /\ TouchesBlocklisted(gDiff))
    => /\ gOut.compile.kind = "blocked"
       /\ Contains(gOut.compile.error_text, <<"BLOCKED: Attempt to modify">>)

\* C4: in a session the number of sandbox builds started (by compile_agent or
\* by the compile_maven_stateful tool) never exceeds the budget that app.invoke
\* is given, and the count of the rounds run never exceeds it in any state.
C4_AttemptsWithinBudget ==
    /\ builds <= recursion_limit
    /\ steps <= recursion_limit

\* the budget is used up after two builds
C4_Witness ==
    /\ node = "raised"
    /\ outcome = "GraphRecursionError"
    /\ steps = recursion_limit
    /\ builds = 2

\* C5: every session that enters the workflow eventually returns a result,
\* whatever the Proposer answers on each round.
C5_SessionTerminates ==
    (wpc = "agent") ~> (result # NoResult /\ status \in TerminalStatuses)

\* a session that ran text-only and tool rounds up to the limit has returned
C5_Witness ==
    /\ result.kind = "error"
    /\ result.error = "GraphRecursionError"
    /\ steps = recursion_limit
    /\ builds = 0
    /\ status = "failed"

\* C6: a session in which a build passed and which returns success returns
\* exactly a diff whose build passed: not an earlier failed diff, not nothing.
C6_FinalArtifactIsValidated ==
    (result.kind = "success" /\ passed # {}) => result.diff \in passed

\* C7: a session whose budget ran out returns its outcome normally, with the
\* last diagnostics attached, and not by way of an exception handler.
C7_ExhaustionIsNormalOutcome ==
    (result.kind # "none" /\ outcome = "GraphRecursionError") =>
        (~result.via_except /\ result.diagnostics # NoContent)

\* C8: when the build of a round ended in an environment failure (the sandbox
\* did not start, an I/O failure) the failure has left the workflow as an
\* exception; it is not followed by another round.
C8_EnvironmentFailureAborts ==
    (outcome \in EnvironmentFailures) => node = "raised"

RecoverableFailures ==
    {"blocked", "policy_violation", "test_fail", "compile_fail", "compile_fail_echo"}

\* C9: after a round of compile_agent that ended in a recoverable failure
\* (policy violation, compile or test failure) a message is appended and the
\* next node is the Proposer's.
C9_RecoverableFailureContinues ==
    (ran = "compile_agent" /\ outcome \in RecoverableFailures) =>
        (node = "agent" /\ Last(messages).role \in {"tool", "ai"}
                        /\ Len(messages) > Len(initial_messages))

\* C10: once the status of the change is terminal no step changes it, and once
\* the workflow has ended or raised no node runs and no message is appended.
C10_TerminalIsFinal ==
    [][ /\ (status \in TerminalStatuses) =>
              (status' = status /\ steps' = steps /\ messages' = messages
               /\ node' = node /\ result' = result)
        /\ (node \in {"END", "raised"}) =>
              (steps' = steps /\ messages' = messages /\ node' = node
               /\ builds' = builds) ]_vars

\* a session has run its rounds, returned, and its terminal status is written
C10_Witness ==
    /\ status \in TerminalStatuses
    /\ result.kind = "success"
    /\ wpc = "done"
    /\ node = "END"
    /\ steps > 0

\* C11: a sandbox container is live only while the recipe run that acquired
\* it is in progress; after every build and every recipe run, however it
\* ended (success, failed build, failed start, exception inside the block),
\* no container is left live.
C11_NoContainerOutsideRun ==
    live = (IF wpc = "recipe_run" THEN 1 ELSE 0)

\* a build has raised inside the block of its container and a recipe run has
\* ended before it, and no container is live
C11_Witness ==
    /\ outcome = "io_error"
    /\ ran = "compile_agent"
    /\ builds = 1
    /\ live = 0

C13_RejectedBeforeSandbox ==
    [][(steps' = steps + 1 /\ outcome' = "blocked")
          => (builds' = builds /\ live' = live /\ tree' = tree)]_vars

\* a rejected diff arrives while the tree still holds the changes that a
\* failed build left behind
C13_Witness ==
    /\ outcome = "blocked"
    /\ tree # CleanTree
    /\ builds = 1

\* C14: after compile_maven_stateful has built a diff, the working tree holds
\* the diff's changes (until reset_repo); after validate_diffs the tree is as
\* it was before.
C14_CompilePersists ==
    /\ []((/\ ran = "tools"
           /\ outcome \in {"pass", "test_fail", "compile_fail", "compile_fail_echo"})
             => tree = <<messages[Len(messages) - 1].tool_calls[1].args>>)
    /\ [][(ran' = "tools" /\ steps' = steps + 1
           /\ Last(messages).tool_calls # <<>>
           /\ Last(messages).tool_calls[1].name = "validate_diffs")
             => tree' = tree]_vars

\* the diff is valid for the files: the old side of every hunk is the content
\* of its file
DiffIsValid ==
    \A n \in 1..Len(parse_unified_diff(fnIn.diff)) :
        LET fc == parse_unified_diff(fnIn.diff)[n]
        IN /\ Len(fc.file_path) = 1 /\ fc.file_path[1] \in BranchPaths
           /\ OldSide(fc.full_content) = fnIn.files[fc.file_path[1]]

\* some hunk expects a line that its file does not hold
SomeHunkUnmatched ==
    \E n \in 1..Len(parse_unified_diff(fnIn.diff)) :
        LET fc == parse_unified_diff(fnIn.diff)[n]
        IN /\ Len(fc.file_path) = 1 /\ fc.file_path[1] \in BranchPaths
           /\ \E k \in 1..Len(OldSide(fc.full_content)) :
                 \A j \in 1..Len(fnIn.files[fc.file_path[1]]) :
                     fnIn.files[fc.file_path[1]][j] # OldSide(fc.full_content)[k]

\* C15: for a valid diff, applying the diff and then its inverse gives the
\* original content back.
C15_DiffRoundTrip ==
    (/\ fnOut.pass = 2 /\ fnOut.phase = "created" /\ fnOut.complete
     /\ DiffIsValid)
        => fnOut.branch = fnIn.files

\* C16: when a hunk's old lines are absent from its file the application is
\* refused and no file of the branch is changed.
C16_ApplyAllOrNothing ==
    SomeHunkUnmatched => (fnOut.branch = fnIn.files /\ fnOut.phase # "created")

\* the record of the n-th block of the diff
RecordOf(n) ==
    DependencyChange(<<GroupOf(n)>>, <<ArtifactOf(n)>>, <<OldOf(n)>>, <<NewOf(n)>>)

\* the blocks of the diff that hold all four fields, in the order of the diff
RECURSIVE CompleteBlocks(_, _)
CompleteBlocks(blocks, n) ==
    IF n > Len(blocks) THEN <<>>
    ELSE (IF blocks[n].fields = DepFields THEN <<RecordOf(n)>> ELSE <<>>)
         \o CompleteBlocks(blocks, n + 1)

\* C17: the extractor emits one record for every block that holds all four
\* fields, closed or cut off, with the block's own values, and nothing for a
\* block that misses a field.
C17_OneRecordPerCompleteBlock ==
    fnOut.done => fnOut.changes = CompleteBlocks(fnIn, 1)

\* the value of the nearest line before line n of the diff that holds tag
NearestBefore(lines, n, open, close) ==
    LET at == {i \in 1..(n - 1) : LazyGroup(lines[i], open, close).found}
    IN IF at = {} THEN <<>>
       ELSE LazyGroup(lines[CHOOSE i \in at : \A j \in at : j <= i], open, close).group

\* C18: the coordinate of every emitted record is the groupId and artifactId
\* nearest before the added <version> line that gave the record its new
\* version.
C18_CoordinateAtVersionLine ==
    fnOut.done =>
        \A k \in 1..Len(fnOut.changes) :
            LET lines == PomDiff(fnIn)
                r == fnOut.changes[k]
            IN \E n \in 1..Len(lines) :
                  /\ StartsWith(lines[n], "+")
                  /\ LazyGroup(lines[n], "<version>", "</version>").found
                  /\ LazyGroup(lines[n], "<version>", "</version>").group = r.new_version
                  /\ r.group_id = NearestBefore(lines, n, "<groupId>", "</groupId>")
                  /\ r.artifact_id = NearestBefore(lines, n, "<artifactId>", "</artifactId>")

\* the lines of the compiled file around line L, with their numbers
Window(input, L) ==
    LET built == BuiltFile(input)
        first == Max(1, L - 1)
        last == Min(Len(built), L + 1)
    IN [n \in 1..(last - first + 1) |->
            [line_no |-> first + n - 1, content |-> built[first + n - 1]]]

EntriesFor(L) == {k \in 1..Len(fnOut.entries) : fnOut.entries[k].line = L}

\* C19: every diagnostic at line L of an N-line file that can be read has a
\* record whose context is the lines max(1, L-1) .. min(N, L+1) of that file,
\* with their numbers and contents.
C19_ContextWindow ==
    (fnOut.done /\ fnIn.readable) =>
        \A i \in 1..Len(fnIn.errors) :
            \E k \in EntriesFor(fnIn.errors[i][1]) :
                fnOut.entries[k].lines = Window(fnIn, fnIn.errors[i][1])

\* the texts of the diagnostics of line L
DistinctTexts(L) ==
    {DiagnosticText(fnIn.errors[i]) : i \in {j \in 1..Len(fnIn.errors) : fnIn.errors[j][1] = L}}

\* one entry for line L that holds each of its texts once and nothing else
OneEntryWithEachText(L) ==
    /\ Cardinality(EntriesFor(L)) = 1
    /\ \A k \in EntriesFor(L) :
          LET texts == fnOut.entries[k].error_texts
          IN /\ {texts[n] : n \in 1..Len(texts)} = DistinctTexts(L)
             /\ Len(texts) = Cardinality(DistinctTexts(L))

C21_ErrorTextIsClean ==
    fnOut.done =>
        \A n \in 1..Len(fnOut.error_text) :
            /\ ~IsDownloadLine(fnOut.error_text[n])
            /\ \A k \in 1..Len(fnOut.error_text[n]) :
                  /\ ~HasTok(fnOut.error_text[n][k], SandboxPrefix)
                  /\ ~HasTok(fnOut.error_text[n][k], ProjectPath)

\* C22: a reply that is a tool call in the form {"tool": name, "args": ...},
\* whatever its arguments, goes to the tools node with that tool call; a
\* reply of free text with a fenced diff goes to compile_agent.
C22_InlineToolCallRouted ==
    [][(ran' = "agent" /\ steps' = steps + 1 /\ outcome' = "reply")
          => LET reply == Last(messages')
             IN /\ (JsonLoads(reply.content) /\ HasTok(reply.content, "tool"))
                      => /\ node' = "tools"
                         /\ Len(reply.tool_calls) = 1
                         /\ reply.tool_calls[1].name = JsonGet(reply.content, "tool", None)
                /\ (~StartsWith(reply.content, "{") /\ HasTok(reply.content, DiffFence))
                      => node' = "compile_agent"]_vars

\* the diff removes a whole dependency block, no block of the same coordinate
\* adds or rewrites a line, and no block changes the version of a coordinate
RemovesBlock(d) ==
    /\ ManifestDiff(d)
    /\ \A c \in BlocksOf(d) : ~(c.mv = "chg" /\ c.versions[1] # c.versions[2])
    /\ \E b \in BlocksOf(d) :
          /\ BlockWhole(b, "del")
          /\ \A c \in BlocksOf(d) :
                c.coord = b.coord => (BlockWhole(c, "del") \/ BlockWhole(c, "ctx"))

\* C23: a manifest diff that removes a dependency block without adding it
\* again, and changes no existing coordinate's version, is allowed by the
\* Manifest Policy Guard.
C23_RemovalTolerated ==
    (gOut.done /\ RemovesBlock(gDiff)) => gOut.guard.allowed

\* C23 witness: the guard has run on the removal of a block whose coordinate
\* the on-disk manifest declares
C23_Witness ==
    /\ gOut.done
    /\ gPom = PomOnDisk
    /\ RemovesBlock(gDiff)
    /\ \E b \in BlocksOf(gDiff) : BlockWhole(b, "del") /\ OnDisk(gPom, b.coord)
\* C24: the log a session appends to holds only that session's own tool calls,
\* also when another session with the same commit hash ran before it.
C24_HistoryPerSession ==
    \A s \in SessionIds :
        fnOut.phase[s] # "new" =>
            \A n \in 1..Len(fnOut.execution_details[fnIn[s]]) :
                fnOut.execution_details[fnIn[s]][n].session = s
\* C25: the workflow of a session reaches END only if in that session a
\* sandbox build was run and reported that compilation and tests succeeded;
\* the text of a Proposer message or of a tool result does not end it.
C25_SuccessNeedsBuild ==
    (node = "END") => (builds > 0 /\ passed # {})
\* a Proposer message that carries the diff in a fenced block, as lines
FencedMessage(d) ==
    << <<"text">>, <<DiffFence>> >> \o Render(d) \o << <<FenceEnd>> >>

\* C26: compile_agent rejects a message that carries a diff as a forbidden
\* version change exactly when validate_pom_xml_changes rejects that diff.
C26_OnePolicy ==
    gOut.done =>
        (CompileAgentRejects(FencedMessage(gDiff)) <=> ~gOut.guard.allowed)
\* the groupId (artifactId) values that the lines of the n-th block hold
GroupsIn(n) ==
    (IF "group" \in fnIn[n].fields THEN {<<GroupOf(n)>>} ELSE {})
    \cup (IF fnIn[n].shape = "exclusion" THEN {<<"org.excluded">>} ELSE {})

ArtifactsIn(n) ==
    (IF "artifact" \in fnIn[n].fields THEN {<<ArtifactOf(n)>>} ELSE {})
    \cup (IF fnIn[n].shape = "exclusion" THEN {<<"lib-excluded">>} ELSE {})

\* the four fields of the record are values of lines of the n-th block
FromBlock(r, n) ==
    /\ r.group_id \in GroupsIn(n)
    /\ r.artifact_id \in ArtifactsIn(n)
    /\ "old" \in fnIn[n].fields /\ r.old_version = <<OldOf(n)>>
    /\ "new" \in fnIn[n].fields /\ r.new_version = <<NewOf(n)>>

\* C27: every record the extractor emits takes its groupId, artifactId, old
\* version and new version from one and the same dependency block, also when
\* a block is cut off before its closing tag and another block follows.
C27_FieldsOfOneBlock ==
    fnOut.done =>
        \A k \in 1..Len(fnOut.changes) :
            \E n \in 1..Len(fnIn) : FromBlock(fnOut.changes[k], n)
\* C28: on every return path of process_breaking_change the working tree is
\* as it was at entry: no rewrite.yaml, no rewrite-maven-plugin in pom.xml and
\* no recipe edit.
C28_TreeRestoredOnReturn ==
    fnOut.pc = "returned" => fnOut.tree = EntryTree
\* C29: run_rewrite, run_rewrite_dry_run and compile_after_rewrite execute a
\* command only inside the block of start_container; called before it or
\* after its exit they raise RuntimeError and send no command.
C29_CommandsOnlyInsideContext ==
    \A n \in 1..Len(fnOut.log) :
        IF fnOut.log[n].phase = "inside"
        THEN fnOut.log[n].result = "executed"
        ELSE fnOut.log[n].result = "RuntimeError"
\* C30: when the background run of a change is over, exactly one of
\* save_result and save_error has been called for it, once; a session whose
\* recipe run or agent run succeeded has status fixed and its diff saved, and
\* a session that failed has status failed.
C30_OneTerminalResult ==
    (wpc = "done") =>
        /\ calls.save_result + calls.save_error = 1
        /\ calls.succeeded => (status = "fixed" /\ calls.diff_saved)
        /\ ~calls.succeeded => (status = "failed" /\ calls.save_error = 1)
====
